---- MODULE Spec2Model ----
(***************************************************************************)
(* TextDigest: the batch pipeline of runTextDigest (cli.ts), the Batch     *)
(* Partitioner and Parallel Batch Scheduler (content-processor.ts) and the *)
(* Summarization Gateway (llm-summarizer.ts).                              *)
(*                                                                         *)
(* Spec          one run of the pipeline from the call of discoverFiles on:*)
(*               every step between two suspension points of the event     *)
(*               loop is one action.                                       *)
(* FairSpec      Spec with the event loop's fairness: every continuation   *)
(*               that is ready runs, every provider that answers is heard. *)
(* SpecPartition createBatches as a pure function over drawn inputs.       *)
(* SpecConfidence calculateConfidence as a pure function over drawn inputs.*)
(* SpecFacts     analyzeFacts over drawn summaries, one key fact per step. *)
(* SpecGraph     buildKnowledgeGraph over drawn files, one mention per     *)
(*               step, then the edges.                                     *)
(* SpecScheduler createBatches and processBatchesInParallel with any       *)
(*               processor; FairScheduler adds that every promise of the   *)
(*               processor settles.                                        *)
(* SpecRarity    the rarityScore of analyzeFacts over drawn term scores.   *)
(* SpecCluster   clusterEntities over drawn nodes and outcomes of kmeans.  *)
(***************************************************************************)
EXTENDS Integers, Sequences, FiniteSets, TLC

\* ---------------------------------------------------------------- bounds
MaxDocs == 3
MaxBatchSize == 2
MaxConcurrent == 2
MaxItems == 2
MaxSkip == 2
MaxFiles == 2
MaxScore == 2
MaxNodes == 4
MaxMentions == 3

\* ------------------------------------------------------ program constants
TopN == 10          \* .slice(0, 10)
CommonMin == 3      \* f.frequency >= 3
RarityMin == 70     \* f.rarityScore >= 0.7, in hundredths
LongWords == 50     \* f.wordCount > 50
GraphDocs == 50     \* contents.length > 50
GraphTokens == 20000 \* totalTokens > 20000
CharsPerToken == 4  \* c.content.length / 4

VARIABLES
  env,               \* process.env: which API keys are set
  clients,           \* llm-summarizer.ts module state: initialized, googleAI, openAI
  files,             \* runTextDigest: const files
  excludeLaw,        \* runTextDigest option
  contents,          \* runTextDigest: let contents
  noInput,           \* the event logged before process.exit(1) on no input
  graph,             \* runTextDigest: const graph of the Stage 4 block
  conclusionArgs,    \* names of the arguments generateConclusions was called with
  digestArgs,        \* names of the arguments generateDigest was called with
  batchSize,         \* createBatches parameter
  maxConcurrent,     \* processBatchesInParallel parameter
  includeConclusions,\* runTextDigest option
  pc,                \* runTextDigest: position of the run
  batches,           \* runTextDigest: const batches
  i,                 \* processBatchesInParallel: loop variable
  gw,                \* one summarizeBatch invocation per batch
  settledOrder,      \* batches of the current chunk, in the order they fulfilled
  results,           \* processBatchesInParallel: const results
  outcome,           \* the promise processBatchesInParallel returned
  factAnalysis,      \* runTextDigest: const factAnalysis
  conclusionCalls,   \* outbound calls made by generateConclusions
  conclusions,       \* runTextDigest: let conclusions
  digestWritten,     \* writeDigest has written the output file
  p_contents,        \* SpecPartition: the input sequence
  p_batchSize,       \* SpecPartition: the batch size
  p_batches,         \* SpecPartition: the value createBatches returned
  p_pc,              \* SpecPartition: "input" or "returned"
  c_summary,         \* SpecConfidence: the per-file object of the response
  c_confidence,      \* SpecConfidence: the value calculateConfidence returned
  c_pc,              \* SpecConfidence: "input" or "returned"
  f_summaries,       \* SpecFacts: the summaries given to analyzeFacts
  f_factMap,         \* SpecFacts: const factMap, entries in insertion order
  f_at,              \* SpecFacts: the loops' position, <<summary, key fact>>
  f_analyzed,        \* SpecFacts: const analyzedFacts
  f_result,          \* SpecFacts: the value analyzeFacts returned
  f_pc,              \* SpecFacts: "collect" or "returned"
  g_files,           \* SpecGraph: the files given to buildKnowledgeGraph
  g_entityMap,       \* SpecGraph: const entityMap, entries in insertion order
  g_nodes,           \* SpecGraph: const nodes
  g_coOccurrences,   \* SpecGraph: const coOccurrences, entries in insertion order
  g_edges,           \* SpecGraph: const edges
  g_at,              \* SpecGraph: the loops' position, <<file, mention>>
  g_pc,              \* SpecGraph: "build" or "returned"
  s_contents,        \* SpecScheduler: the documents given to createBatches
  s_batchSize,       \* SpecScheduler: the batch size
  s_maxConcurrent,   \* SpecScheduler: the concurrency cap
  s_batches,         \* SpecScheduler: the batches createBatches returned
  s_i,               \* SpecScheduler: processBatchesInParallel's loop variable
  s_calls,           \* SpecScheduler: per batch, the processor's promise and calls
  s_results,         \* SpecScheduler: const results
  s_outcome,         \* SpecScheduler: the promise processBatchesInParallel returned
  s_pc,              \* SpecScheduler: "input", "await" or "returned"
  r_scores,          \* SpecRarity: per fact, the scores tfidf.listTerms gave
  r_rarity,          \* SpecRarity: per fact, the rarityScore computed
  r_pc,              \* SpecRarity: "input" or "returned"
  k_nodes,           \* SpecCluster: the nodes given to clusterEntities
  k_kmeans,          \* SpecCluster: the calls made to kmeans
  k_result,          \* SpecCluster: what clusterEntities returned or threw
  k_pc               \* SpecCluster: "input" or "returned"

stageVars == <<files, excludeLaw, contents, noInput, graph>>
runVars == <<env, clients, stageVars, batchSize, maxConcurrent, includeConclusions,
             pc, batches, i, gw, settledOrder, results, outcome, factAnalysis,
             conclusionCalls, conclusions, digestWritten, conclusionArgs, digestArgs>>
partVars == <<p_contents, p_batchSize, p_batches, p_pc>>
confVars == <<c_summary, c_confidence, c_pc>>
factVars == <<f_summaries, f_factMap, f_at, f_analyzed, f_result, f_pc>>
graphVars == <<g_files, g_entityMap, g_nodes, g_coOccurrences, g_edges, g_at, g_pc>>
schedVars == <<s_contents, s_batchSize, s_maxConcurrent, s_batches, s_i, s_calls,
               s_results, s_outcome, s_pc>>
rarityVars == <<r_scores, r_rarity, r_pc>>
clusterVars == <<k_nodes, k_kmeans, k_result, k_pc>>
pureVars == <<partVars, confVars, factVars, graphVars, schedVars, rarityVars, clusterVars>>
vars == <<runVars, pureVars>>

\* ---------------------------------------------------------------- helpers
Min(a, b) == IF a < b THEN a ELSE b

\* A quotient of two numbers kept exact: a numerator and a positive
\* denominator.
Ratio(n, d) == [num |-> n, den |-> d]
RatioLess(a, b) == a.num * b.den < b.num * a.den
RatioEq(a, b) == a.num * b.den = b.num * a.den

\* Array.prototype.slice(from, to) on a sequence, with JavaScript's 0-based
\* indices: the elements at 0-based positions from .. to-1 that exist.
Slice(s, from, to) ==
  LET hi == Min(to, Len(s))
      n  == IF hi > from THEN hi - from ELSE 0
  IN  [k \in 1..n |-> s[from + k]]

RECURSIVE Flat(_)
\* Array.prototype.flat() on a sequence of sequences.
Flat(ss) == IF ss = <<>> THEN <<>> ELSE Head(ss) \o Flat(Tail(ss))

RECURSIVE SumLen(_)
SumLen(ss) == IF ss = <<>> THEN 0 ELSE Len(Head(ss)) + SumLen(Tail(ss))

\* ------------------------------------------------------- Batch Partitioner
RECURSIVE createBatchesFrom(_, _, _)
\* The loop of createBatches from index k on: for (k; k < length; k += batchSize).
\* A batch's id stands for randomUUID(): the loop index is unique per batch.
createBatchesFrom(cs, size, k) ==
  IF k < Len(cs)
    THEN <<[id |-> k, items |-> Slice(cs, k, k + size)]>>
           \o createBatchesFrom(cs, size, k + size)
    ELSE <<>>

createBatches_ShortSlice(cs, size) ==
  LET RECURSIVE loop(_)
      loop(k) == IF k < Len(cs)
                   THEN <<[id |-> k, items |-> Slice(cs, k, k + size - 1)]>> \o loop(k + size)
                   ELSE <<>>
  IN  loop(0)

createBatches(cs, size) == createBatchesFrom(cs, size, 0)

\* --------------------------------------------------- Summarization Gateway
PrimaryModel == "gemini-2.0-flash-exp"
FallbackModel == "gpt-4o-mini"

\* The values JavaScript's || replaces by its right operand.
Falsy == {"undefined", ""}

\* A per-file result object of a provider response, as parsed: each field is
\* a token for its value, "undefined" when the object lacks the field.
FullEntry == [summary |-> "text", keyFacts |-> "facts", insights |-> "insights",
              statistics |-> "stats", sources |-> "sources"]
BareEntry == [summary |-> "undefined", keyFacts |-> "undefined", insights |-> "undefined",
              statistics |-> "undefined", sources |-> "undefined"]
EntryShapes == {FullEntry, BareEntry}

\* What an outbound call for a batch of n documents can come back with:
\* the call throws (network), the text is no JSON, the JSON has no summaries
\* array, or it has one of 0..n+1 per-file objects.
Responses(n) ==
  {[kind |-> k, summaries |-> <<>>] : k \in {"network_error", "unparseable", "no_summaries"}}
  \cup {[kind |-> "json", summaries |-> ss] : ss \in UNION {[1..m -> EntryShapes] : m \in 0..(n + 1)}}

\* The answers to a call for any batch of the run.
AllResponses == Responses(MaxBatchSize)

\* The object literal built per element of data.summaries.map(...).
ToFileSummary(s, doc, model) ==
  [file       |-> doc,
   summary    |-> IF s.summary \in Falsy THEN "No summary provided" ELSE s.summary,
   keyFacts   |-> IF s.keyFacts \in Falsy THEN "[]" ELSE s.keyFacts,
   insights   |-> IF s.insights \in Falsy THEN "[]" ELSE s.insights,
   statistics |-> IF s.statistics \in Falsy THEN "{}" ELSE s.statistics,
   sources    |-> IF s.sources \in Falsy THEN "[]" ELSE s.sources,
   model      |-> model]

NoError == [kind |-> "none", provider |-> "none", batch |-> 0]
Thrown(kind, provider, b) == [kind |-> kind, provider |-> provider, batch |-> b]

ParseResponse_Strict(items, resp, model, provider, b) ==
  IF resp.kind = "json"
       /\ Len(resp.summaries) = Len(items)
       /\ \A k \in 1..Len(resp.summaries) : resp.summaries[k] = FullEntry
    THEN [ok |-> TRUE,
          value |-> [k \in 1..Len(resp.summaries) |->
                       ToFileSummary(resp.summaries[k], items[k], model)],
          error |-> NoError]
    ELSE [ok |-> FALSE, value |-> <<>>, error |-> Thrown("schema", provider, b)]

\* summarizeWithGoogle / summarizeWithOpenAI from the awaited call on: the
\* call itself throws, JSON.parse throws, data.summaries.map throws on a
\* missing array, batch.items[index].metadata throws past the last item;
\* otherwise one FileSummary per element of data.summaries.
ParseResponse(items, resp, model, provider, b) ==
  CASE resp.kind = "network_error" ->
         [ok |-> FALSE, value |-> <<>>, error |-> Thrown("network", provider, b)]
    [] resp.kind = "unparseable" ->
         [ok |-> FALSE, value |-> <<>>, error |-> Thrown("parse", provider, b)]
    [] resp.kind = "no_summaries" ->
         [ok |-> FALSE, value |-> <<>>, error |-> Thrown("schema", provider, b)]
    [] OTHER ->
         IF Len(resp.summaries) > Len(items)
           THEN [ok |-> FALSE, value |-> <<>>, error |-> Thrown("schema", provider, b)]
           ELSE [ok |-> TRUE,
                 value |-> [k \in 1..Len(resp.summaries) |->
                              ToFileSummary(resp.summaries[k], items[k], model)],
                 error |-> NoError]

ModelOf(provider) == IF provider = "google" THEN PrimaryModel ELSE FallbackModel

initializeClients_NoKeyCheck(c) ==
  IF c.initialized THEN [threw |-> FALSE, clients |-> c]
  ELSE IF ~env.google /\ ~env.openai THEN [threw |-> TRUE, clients |-> c]
  ELSE [threw |-> FALSE,
        clients |-> [initialized |-> TRUE, googleAI |-> TRUE, openAI |-> env.openai]]

\* initializeClients with loadEnvConfig: returns at once when initialized;
\* loadEnvConfig throws when neither key is set (initialized stays false);
\* otherwise each client exists iff its key is set.
initializeClients(c) ==
  IF c.initialized THEN [threw |-> FALSE, clients |-> c]
  ELSE IF ~env.google /\ ~env.openai THEN [threw |-> TRUE, clients |-> c]
  ELSE [threw |-> FALSE,
        clients |-> [initialized |-> TRUE, googleAI |-> env.google, openAI |-> env.openai]]

\* What kind of answer resp is for a batch of n documents: the three
\* failures of Responses, more per-file objects than documents, per-file
\* objects that lack fields, or per-file objects that all have every field.
Classify(resp, n) ==
  IF resp.kind # "json" THEN resp.kind
  ELSE IF Len(resp.summaries) > n THEN "too_many"
  ELSE IF \E k \in 1..Len(resp.summaries) : resp.summaries[k] # FullEntry THEN "lacking_fields"
  ELSE "complete"

\* One outbound call: the provider, the batch items the prompt was built
\* from, and how it ended ("pending", "hung", "ok", "failed").
Attempt(provider, items) == [provider |-> provider, payload |-> items, outcome |-> "pending"]

Idle == [st |-> "idle", attempts |-> <<>>, value |-> <<>>, error |-> NoError]

\* summarizeBatch from its call to its first await, c being the clients
\* after initializeClients and threw whether initializeClients threw.
StartBatch(c, threw, b, items) ==
  IF threw
    THEN [Idle EXCEPT !.st = "rejected", !.error = Thrown("missing_keys", "none", b)]
  ELSE IF c.googleAI
    THEN [Idle EXCEPT !.st = "primary", !.attempts = <<Attempt("google", items)>>]
  ELSE IF c.openAI
    THEN [Idle EXCEPT !.st = "primary", !.attempts = <<Attempt("openai", items)>>]
  ELSE [Idle EXCEPT !.st = "rejected", !.error = Thrown("no_keys", "none", b)]

ShouldFallback_Never(c) == FALSE

\* The catch block's condition for the second attempt: if (openAI && googleAI).
ShouldFallback(c) == c.openAI /\ c.googleAI

SetOutcome(g, o) == [g EXCEPT !.attempts[Len(g.attempts)].outcome = o]

ResumeBatch_RetryWithoutPrimary(g, c, resp, b) ==
  LET a == g.attempts[Len(g.attempts)]
      r == ParseResponse(a.payload, resp, ModelOf(a.provider), a.provider, b)
  IN  IF r.ok
        THEN [SetOutcome(g, "ok") EXCEPT !.st = "fulfilled", !.value = r.value]
      ELSE IF g.st = "primary" /\ c.openAI
        THEN [SetOutcome(g, "failed") EXCEPT
                !.st = "fallback",
                !.attempts = Append(SetOutcome(g, "failed").attempts,
                                    Attempt("openai", a.payload))]
      ELSE [SetOutcome(g, "failed") EXCEPT !.st = "rejected", !.error = r.error]

\* summarizeBatch resumed by the answer resp to its pending call.
ResumeBatch(g, c, resp, b) ==
  LET a == g.attempts[Len(g.attempts)]
      r == ParseResponse(a.payload, resp, ModelOf(a.provider), a.provider, b)
  IN  IF r.ok
        THEN [SetOutcome(g, "ok") EXCEPT !.st = "fulfilled", !.value = r.value]
      ELSE IF g.st = "primary" /\ ShouldFallback(c)
        THEN [SetOutcome(g, "failed") EXCEPT
                !.st = "fallback",
                !.attempts = Append(SetOutcome(g, "failed").attempts,
                                    Attempt("openai", a.payload))]
      ELSE [SetOutcome(g, "failed") EXCEPT !.st = "rejected", !.error = r.error]

InFlight(g) == g.st \in {"primary", "fallback"}

\* ------------------------------------------------ Parallel Batch Scheduler
ChunkIdx_Wide(n, k, c) == {b \in 1..n : k < b /\ b <= k + c + 1}

\* batches.slice(i, i + maxConcurrent), as the (1-based) positions of the
\* batches it holds, n being batches.length.
ChunkIdx(n, k, c) == {b \in 1..n : k < b /\ b <= k + c}

PromiseAll_Settled(g, chunk) ==
  IF \A b \in chunk : g[b].st \in {"fulfilled", "rejected"} THEN "fulfilled" ELSE "pending"

PromiseAll_FulfilledOnly(g, chunk) ==
  IF \A b \in chunk : g[b].st = "fulfilled" THEN "fulfilled" ELSE "pending"

\* Promise.all over the chunk's promises: rejected as soon as one of them
\* is, fulfilled once all of them are.
PromiseAll(g, chunk) ==
  IF \E b \in chunk : g[b].st = "rejected" THEN "rejected"
  ELSE IF \A b \in chunk : g[b].st = "fulfilled" THEN "fulfilled"
  ELSE "pending"

ChunkResults_CompletionOrder(g, k, c, order) ==
  Flat([j \in 1..Len(order) |-> g[order[j]].value])

\* chunkResults.flat(): the values of the chunk's batches in the order of
\* the chunk, whatever the order they fulfilled in.
ChunkResults(g, k, c, order) ==
  LET chunk == ChunkIdx(Len(g), k, c)
  IN  Flat([j \in 1..Cardinality(chunk) |-> g[k + j].value])

Pending == [state |-> "pending", value |-> <<>>, error |-> NoError]

StartChunk_Rest(g, bs, k, c) ==
  LET ic == initializeClients(clients)
  IN  [b \in 1..Len(bs) |->
         IF k < b
           THEN StartBatch(ic.clients, ic.threw, b, bs[b].items)
           ELSE g[b]]

\* chunk.map(processor) for the chunk at loop index k: summarizeBatch is
\* called on each batch of the chunk in turn, each running to its first await.
StartChunk(g, bs, k, c) ==
  LET ic == initializeClients(clients)
  IN  [b \in 1..Len(bs) |->
         IF b \in ChunkIdx(Len(bs), k, c)
           THEN StartBatch(ic.clients, ic.threw, b, bs[b].items)
           ELSE g[b]]

\* The error Promise.all rejects with: that of the promise that rejected
\* first, which is batch b when b has just rejected and otherwise the first
\* batch of the chunk that rejected while being started.
FirstRejection(g, chunk, b) ==
  IF b \in chunk /\ g[b].st = "rejected"
    THEN g[b].error
    ELSE LET rej == {x \in chunk : g[x].st = "rejected"}
         IN  g[CHOOSE x \in rej : \A y \in rej : x <= y].error

RECURSIVE Continue(_, _, _, _, _, _, _)
\* processBatchesInParallel from the await of the chunk at loop index k on,
\* g being the batches' invocations, res the results so far and b the batch
\* that has just settled (0 when the chunk has just been started): the
\* function goes on while Promise.all is settled and returns the state it
\* suspends or ends in.
Continue(g, bs, k, c, res, order, b) ==
  LET n     == Len(bs)
      chunk == ChunkIdx(n, k, c)
      st    == PromiseAll(g, chunk)
  IN  CASE st = "pending" ->
             [gw |-> g, i |-> k, results |-> res, order |-> order, outcome |-> Pending]
        [] st = "rejected" ->
             [gw |-> g, i |-> k, results |-> res, order |-> order,
              outcome |-> [state |-> "rejected", value |-> <<>>,
                           error |-> FirstRejection(g, chunk, b)]]
        [] OTHER ->
             LET res2 == res \o ChunkResults(g, k, c, order)
                 k2   == k + c
             IN  IF k2 < n
                   THEN Continue(StartChunk(g, bs, k2, c), bs, k2, c, res2, <<>>, 0)
                   ELSE [gw |-> g, i |-> k2, results |-> res2, order |-> order,
                         outcome |-> [state |-> "resolved", value |-> res2,
                                      error |-> NoError]]

\* processBatchesInParallel from its call to its first suspension.
processBatchesInParallel(bs, c) ==
  IF 0 < Len(bs)
    THEN Continue(StartChunk([b \in 1..Len(bs) |-> Idle], bs, 0, c), bs, 0, c, <<>>, <<>>, 0)
    ELSE [gw |-> <<>>, i |-> 0, results |-> <<>>, order |-> <<>>,
          outcome |-> [state |-> "resolved", value |-> <<>>, error |-> NoError]]

\* ------------------------------------------------------------ runTextDigest
AfterSummarize_NoAbort(o) ==
  IF o.state = "pending" THEN "stage6" ELSE "stage7"

\* runTextDigest around Stage 6: it awaits processBatchesInParallel; a
\* rejection reaches the catch block, which ends the process with code 1, and
\* so does an empty summaries array; otherwise Stage 7 is next.
AfterSummarize(o) ==
  IF o.state = "pending" THEN "stage6"
  ELSE IF o.state = "rejected" THEN "exit1"
  ELSE IF Len(o.value) = 0 THEN "exit1"
  ELSE "stage7"

\* A string is the sequence of its pieces; its text is their concatenation.
\* /\[source:/.test(item): the text contains "[source:" somewhere.
HasSourceTag(item) ==
  \E j \in 1..(Len(item) - 1) : item[j] = "[" /\ item[j + 1] = "source:"

\* A field of the parsed per-file object: absent, or an array of strings.
Undefined == [type |-> "undefined", items |-> <<>>]
Arr(q) == [type |-> "array", items |-> q]

\* a || []: an array is truthy even when empty, undefined is not.
OrEmpty(a) == IF a.type = "undefined" THEN <<>> ELSE a.items

\* let conclusions = null, and the record of the catch block of
\* generateConclusions.
NoConclusions ==
  [isNull |-> TRUE, conclusions |-> <<>>, recommendations |-> <<>>,
   evidence |-> <<>>, confidence |-> <<0, 1>>]
EmptyConclusions ==
  [isNull |-> FALSE, conclusions |-> <<>>, recommendations |-> <<>>,
   evidence |-> <<>>, confidence |-> <<0, 1>>]

\* What the call generateConclusions awaits can come back with: the call
\* throws, the text is no JSON, the JSON is null, or it is an object whose
\* fields conclusions, recommendations and evidence are arrays or absent.
ConclusionObject(c, r, e) ==
  [kind |-> "json", conclusions |-> c, recommendations |-> r, evidence |-> e]
ConclusionResponses ==
  {[kind |-> k, conclusions |-> Undefined, recommendations |-> Undefined,
    evidence |-> Undefined] : k \in {"network_error", "unparseable", "json_null"}}
  \cup {ConclusionObject(Undefined, Undefined, Undefined),
        ConclusionObject(Arr(<< <<"x">> >>), Arr(<< <<"x">> >>),
                         Arr(<< <<"x", "[", "source:", "a.md", "]">>, <<"x">> >>))}

generateConclusions_Rethrow(resp) ==
  IF resp.kind # "json" THEN [threw |-> TRUE, value |-> NoConclusions]
  ELSE [threw |-> FALSE, value |-> EmptyConclusions]

\* generateConclusions from the awaited call on.  The call throwing,
\* JSON.parse throwing and response.evidence of null throwing all reach the
\* catch block, which returns the empty record; otherwise confidence is the
\* share of evidence strings with "[source:", 0.5 without evidence, and the
\* absent fields are replaced by [].
generateConclusions(resp) ==
  IF resp.kind # "json" THEN [threw |-> FALSE, value |-> EmptyConclusions]
  ELSE LET evidence == OrEmpty(resp.evidence)
       IN  [threw |-> FALSE,
            value |-> [isNull          |-> FALSE,
                       conclusions     |-> OrEmpty(resp.conclusions),
                       recommendations |-> OrEmpty(resp.recommendations),
                       evidence        |-> evidence,
                       confidence      |->
                         IF Len(evidence) > 0
                           THEN <<Len(SelectSeq(evidence, HasSourceTag)), Len(evidence)>>
                           ELSE <<1, 2>>]]

\* The provider generateConclusions calls: if (googleAI) ... else if (openAI)
\* ... else throw, inside its try block.
\* ------------------------------------------------- Stages 1 to 4 of a run
\* A file of the scanned folder: its path (id), the length of its content,
\* whether filterLawContent finds it legal content, whether it can be read.
File(k, len, law, ok) == [id |-> k, length |-> len, law |-> law, readable |-> ok]

\* extractContents: the files read, those that readFileContent could read in
\* neither encoding left out.
extractContents(fs) == SelectSeq(fs, LAMBDA f : f.readable)

\* batchFilterLawContent: all files without --exclude-law, otherwise those
\* that are not legal content, in order.
batchFilterLawContent(cs, exclude) ==
  IF ~exclude THEN cs ELSE SelectSeq(cs, LAMBDA c : ~c.law)

RECURSIVE SumLength(_)
SumLength(cs) == IF cs = <<>> THEN 0 ELSE Head(cs).length + SumLength(Tail(cs))

\* totalTokens is the sum of content.length / 4, a sum of quarters that
\* floating point holds exactly: it is kept here as the number of quarters.
totalTokensX4(cs) == SumLength(cs)

useKnowledgeGraph_FloorTokens(cs) ==
  Len(cs) > GraphDocs \/ (totalTokensX4(cs) \div CharsPerToken) > GraphTokens

\* const useKnowledgeGraph = contents.length > 50 || totalTokens > 20000
useKnowledgeGraph(cs) ==
  Len(cs) > GraphDocs \/ totalTokensX4(cs) > CharsPerToken * GraphTokens

\* The graph of the Stage 4 block: buildKnowledgeGraph(contents) over so many
\* files, its clusters assigned from clusterEntities(graph.nodes).
NoGraph == [built |-> FALSE, fileCount |-> 0, clustered |-> FALSE]
BuiltGraph(cs) == [built |-> TRUE, fileCount |-> Len(cs), clustered |-> TRUE]

\* The arguments of generateConclusions(summaries, factAnalysis, logger) and
\* of generateDigest(summaries, processingTimeMs, factAnalysis, conclusions).
NoArgs == {}
ConclusionArgs == {"summaries", "factAnalysis", "logger"}
DigestArgs == {"summaries", "processingTimeMs", "factAnalysis", "conclusions"}

\* runTextDigest from the settling of discoverFiles to the await of
\* extractContents: no file ends the process.
AfterDiscovery(fs) ==
  IF Len(fs) = 0
    THEN [pc |-> "exit1", noInput |-> "no_files_to_process"]
    ELSE [pc |-> "stage2_wait", noInput |-> "none"]

AfterExtraction_NoFilterCheck(cs, exclude) ==
  LET filtered == batchFilterLawContent(cs, exclude)
  IN  IF Len(cs) = 0
        THEN [pc |-> "exit1", noInput |-> "no_content_extracted",
              contents |-> cs, graph |-> NoGraph]
      ELSE [pc |-> "stage5", noInput |-> "none", contents |-> filtered,
            graph |-> IF useKnowledgeGraph(filtered)
                        THEN BuiltGraph(filtered) ELSE NoGraph]

\* runTextDigest from the settling of extractContents (cs) through Stages 3
\* and 4: nothing extracted or nothing left by the law filter ends the
\* process; otherwise the graph is built when the run is large.
AfterExtraction(cs, exclude) ==
  LET filtered == batchFilterLawContent(cs, exclude)
  IN  IF Len(cs) = 0
        THEN [pc |-> "exit1", noInput |-> "no_content_extracted",
              contents |-> cs, graph |-> NoGraph]
      ELSE IF Len(filtered) = 0
        THEN [pc |-> "exit1", noInput |-> "all_files_filtered",
              contents |-> filtered, graph |-> NoGraph]
      ELSE [pc |-> "stage5", noInput |-> "none", contents |-> filtered,
            graph |-> IF useKnowledgeGraph(filtered)
                        THEN BuiltGraph(filtered) ELSE NoGraph]

ConclusionProvider(c) ==
  IF c.googleAI THEN "google" ELSE IF c.openAI THEN "openai" ELSE "none"

\* runTextDigest from the settling of processBatchesInParallel (outcome o)
\* to its next suspension, all in one turn of the event loop: Stage 7
\* (analyzeFacts), then with --include-conclusions Stage 8, generateConclusions
\* up to its awaited call, and without it Stages 9 and 10, generateDigest and
\* writeDigest up to its awaited write.
AfterStage6(o, c) ==
  LET here == [pc |-> AfterSummarize(o), factAnalysis |-> factAnalysis, clients |-> c,
               conclusionCalls |-> conclusionCalls, conclusions |-> conclusions,
               conclusionArgs |-> conclusionArgs, digestArgs |-> digestArgs]
      ic   == initializeClients(c)
      p    == ConclusionProvider(ic.clients)
  IN  IF here.pc # "stage7" THEN here
      ELSE IF ~includeConclusions
        THEN [here EXCEPT !.pc = "stage10_wait", !.factAnalysis = "analyzed",
                          !.digestArgs = DigestArgs]
      ELSE IF ic.threw
        THEN [here EXCEPT !.pc = "exit1", !.factAnalysis = "analyzed",
                          !.conclusionArgs = ConclusionArgs]
      ELSE IF p = "none"
        THEN [here EXCEPT !.pc = "stage10_wait", !.factAnalysis = "analyzed",
                          !.clients = ic.clients, !.conclusions = EmptyConclusions,
                          !.conclusionArgs = ConclusionArgs, !.digestArgs = DigestArgs]
      ELSE [here EXCEPT !.pc = "stage8_wait", !.factAnalysis = "analyzed",
                        !.clients = ic.clients,
                        !.conclusionCalls = Append(conclusionCalls, p),
                        !.conclusionArgs = ConclusionArgs]

\* ------------------------------------------------------------------- Init
Docs == 1..MaxDocs

PartIdle ==
  /\ p_contents = <<>>
  /\ p_batchSize = 1
  /\ p_batches = <<>>
  /\ p_pc = "unused"

ConfIdle ==
  /\ c_summary = [keyFacts |-> [type |-> "undefined", items |-> <<>>],
                  insights |-> [type |-> "undefined", items |-> <<>>]]
  /\ c_confidence = <<0, 1>>
  /\ c_pc = "unused"

FactIdle ==
  /\ f_summaries = <<>>
  /\ f_factMap = <<>>
  /\ f_at = <<1, 1>>
  /\ f_analyzed = <<>>
  /\ f_result = [common |-> <<>>, unusual |-> <<>>, long |-> <<>>]
  /\ f_pc = "unused"

GraphIdle ==
  /\ g_files = <<>>
  /\ g_entityMap = <<>>
  /\ g_nodes = <<>>
  /\ g_coOccurrences = <<>>
  /\ g_edges = <<>>
  /\ g_at = <<1, 1>>
  /\ g_pc = "unused"

SchedIdle ==
  /\ s_contents = <<>>
  /\ s_batchSize = 1
  /\ s_maxConcurrent = 1
  /\ s_batches = <<>>
  /\ s_i = 0
  /\ s_calls = <<>>
  /\ s_results = <<>>
  /\ s_outcome = Pending
  /\ s_pc = "unused"

RarityIdle ==
  /\ r_scores = <<>>
  /\ r_rarity = <<>>
  /\ r_pc = "unused"

ClusterIdle ==
  /\ k_nodes = <<>>
  /\ k_kmeans = <<>>
  /\ k_result = [threw |-> FALSE, clusters |-> <<>>]
  /\ k_pc = "unused"

PureIdle ==
  /\ PartIdle /\ ConfIdle /\ FactIdle /\ GraphIdle /\ SchedIdle
  /\ RarityIdle /\ ClusterIdle

\* The folders a run may scan: up to MaxDocs small files, as many files as
\* the graph threshold and one more, one file at the token threshold and one
\* just above it, and folders whose first file is legal content or cannot be
\* read.
ShortFiles(n) == [k \in 1..n |-> File(k, 1, FALSE, TRUE)]
FileSets ==
  {ShortFiles(n) : n \in 0..MaxDocs}
    \cup {ShortFiles(GraphDocs), ShortFiles(GraphDocs + 1)}
    \cup {<<File(1, len, FALSE, TRUE)>> :
             len \in {CharsPerToken * GraphTokens, CharsPerToken * GraphTokens + 1}}
    \cup {<<File(1, 1, TRUE, TRUE)>>, <<File(1, 1, TRUE, TRUE), File(2, 1, FALSE, TRUE)>>}
    \cup {<<File(1, 1, FALSE, FALSE)>>, <<File(1, 1, FALSE, FALSE), File(2, 1, FALSE, TRUE)>>}

\* A run with --no-exclude-law is followed for the folders that hold legal
\* content: for the others the option changes nothing.
Folders(exclude) ==
  IF exclude THEN FileSets
  ELSE {fs \in FileSets : \E k \in 1..Len(fs) : fs[k].law}

\* The run at its first suspension, the await of discoverFiles: options
\* read, no client built yet.
Init ==
  /\ env \in [google : BOOLEAN, openai : BOOLEAN]
  /\ clients = [initialized |-> FALSE, googleAI |-> FALSE, openAI |-> FALSE]
  /\ files = <<>>
  /\ excludeLaw \in BOOLEAN
  /\ contents = <<>>
  /\ noInput = "none"
  /\ graph = NoGraph
  /\ conclusionArgs = NoArgs
  /\ digestArgs = NoArgs
  /\ batchSize \in 1..MaxBatchSize
  /\ maxConcurrent \in 1..MaxConcurrent
  /\ includeConclusions \in BOOLEAN
  /\ pc = "stage1_wait"
  /\ batches = <<>>
  /\ i = 0
  /\ gw = <<>>
  /\ settledOrder = <<>>
  /\ results = <<>>
  /\ outcome = Pending
  /\ factAnalysis = "unset"
  /\ conclusionCalls = <<>>
  /\ conclusions = NoConclusions
  /\ digestWritten = FALSE
  /\ PureIdle

\* ---------------------------------------------------------------- actions
\* discoverFiles settles with the files fs of the folder.
FilesDiscovered(fs) ==
  /\ pc = "stage1_wait"
  /\ fs \in Folders(excludeLaw)
  /\ files' = fs
  /\ pc' = AfterDiscovery(fs).pc
  /\ noInput' = AfterDiscovery(fs).noInput
  /\ UNCHANGED <<env, clients, excludeLaw, contents, graph, batchSize, maxConcurrent,
                 includeConclusions, batches, i, gw, settledOrder, results, outcome,
                 factAnalysis, conclusionCalls, conclusions, digestWritten,
                 conclusionArgs, digestArgs, pureVars>>

\* extractContents settles with the files it could read; Stages 3 and 4
\* follow in the same turn.
ContentsExtracted ==
  /\ pc = "stage2_wait"
  /\ LET t == AfterExtraction(extractContents(files), excludeLaw)
     IN  /\ contents' = t.contents
         /\ graph' = t.graph
         /\ pc' = t.pc
         /\ noInput' = t.noInput
  /\ UNCHANGED <<env, clients, files, excludeLaw, batchSize, maxConcurrent,
                 includeConclusions, batches, i, gw, settledOrder, results, outcome,
                 factAnalysis, conclusionCalls, conclusions, digestWritten,
                 conclusionArgs, digestArgs, pureVars>>

\* Stages 5 and 6 up to the await, still in the turn of ContentsExtracted:
\* createBatches, then processBatchesInParallel starts the first chunk. Runs
\* of more than MaxDocs documents are followed no further than Stage 4.
Stage5_6 ==
  /\ pc = "stage5"
  /\ Len(contents) <= MaxDocs
  /\ LET bs == createBatches(contents, batchSize)
         s  == processBatchesInParallel(bs, maxConcurrent)
         t  == AfterStage6(s.outcome, initializeClients(clients).clients)
     IN  /\ batches' = bs
         /\ gw' = s.gw
         /\ i' = s.i
         /\ results' = s.results
         /\ settledOrder' = s.order
         /\ outcome' = s.outcome
         /\ pc' = t.pc
         /\ clients' = t.clients
         /\ factAnalysis' = t.factAnalysis
         /\ conclusionCalls' = t.conclusionCalls
         /\ conclusions' = t.conclusions
         /\ conclusionArgs' = t.conclusionArgs
         /\ digestArgs' = t.digestArgs
  /\ UNCHANGED <<env, stageVars, batchSize, maxConcurrent, includeConclusions,
                 digestWritten, pureVars>>

Awaiting(b) ==
  /\ b \in 1..Len(gw)
  /\ InFlight(gw[b])
  /\ gw[b].attempts[Len(gw[b].attempts)].outcome = "pending"

\* The provider of batch b's pending call answers with resp, one of
\* Responses(n) for the n documents of b: summarizeBatch
\* resumes, and when it settles so do Promise.all, processBatchesInParallel
\* and runTextDigest behind it, in the same turn of the event loop.
Respond(b, resp) ==
  /\ pc = "stage6"
  /\ Awaiting(b)
  /\ resp.kind = "json" => Len(resp.summaries) <= Len(batches[b].items) + 1
  /\ LET g1  == [gw EXCEPT ![b] = ResumeBatch(gw[b], clients, resp, b)]
         ord == IF g1[b].st = "fulfilled" THEN Append(settledOrder, b) ELSE settledOrder
         s   == IF g1[b].st \in {"fulfilled", "rejected"} /\ outcome.state = "pending"
                  THEN Continue(g1, batches, i, maxConcurrent, results, ord, b)
                  ELSE [gw |-> g1, i |-> i, results |-> results, order |-> ord,
                        outcome |-> outcome]
         t   == AfterStage6(s.outcome, clients)
     IN  /\ gw' = s.gw
         /\ i' = s.i
         /\ results' = s.results
         /\ settledOrder' = s.order
         /\ outcome' = s.outcome
         /\ pc' = t.pc
         /\ clients' = t.clients
         /\ factAnalysis' = t.factAnalysis
         /\ conclusionCalls' = t.conclusionCalls
         /\ conclusions' = t.conclusions
         /\ conclusionArgs' = t.conclusionArgs
         /\ digestArgs' = t.digestArgs
  /\ UNCHANGED <<env, stageVars, batchSize, maxConcurrent, includeConclusions,
                 batches, digestWritten, pureVars>>

\* The provider of batch b's pending call will never answer. No timer is
\* armed around the call, so nothing follows from this.
ProviderHangs(b) ==
  /\ pc = "stage6"
  /\ Awaiting(b)
  /\ gw' = [gw EXCEPT ![b] = SetOutcome(gw[b], "hung")]
  /\ UNCHANGED <<env, clients, stageVars, batchSize, maxConcurrent, includeConclusions,
                 pc, batches, i, settledOrder, results, outcome, factAnalysis,
                 conclusionCalls, conclusions, digestWritten, conclusionArgs,
                 digestArgs, pureVars>>

\* The call of generateConclusions answers: a parsed response gives the
\* conclusions, anything thrown is caught and gives the empty record; then
\* Stages 9 and 10 up to the awaited write.
ConclusionsRespond(resp) ==
  /\ pc = "stage8_wait"
  /\ resp \in ConclusionResponses
  /\ LET r == generateConclusions(resp)
     IN  /\ conclusions' = r.value
         /\ pc' = IF r.threw THEN "exit1" ELSE "stage10_wait"
         /\ digestArgs' = IF r.threw THEN digestArgs ELSE DigestArgs
  /\ UNCHANGED <<env, clients, stageVars, batchSize, maxConcurrent, includeConclusions,
                 batches, i, gw, settledOrder, results, outcome, factAnalysis,
                 conclusionCalls, digestWritten, conclusionArgs, pureVars>>

\* The write of writeDigest settles: written (ok), or writeFile rejects and
\* the catch block ends the process.
WriteSettles(ok) ==
  /\ pc = "stage10_wait"
  /\ ok \in BOOLEAN
  /\ digestWritten' = ok
  /\ pc' = IF ok THEN "done" ELSE "exit1"
  /\ UNCHANGED <<env, clients, stageVars, batchSize, maxConcurrent, includeConclusions,
                 batches, i, gw, settledOrder, results, outcome, factAnalysis,
                 conclusionCalls, conclusions, conclusionArgs, digestArgs, pureVars>>

Next ==
  \/ \E fs \in FileSets : FilesDiscovered(fs)
  \/ ContentsExtracted
  \/ Stage5_6
  \/ \E b \in Docs : \E resp \in AllResponses : Respond(b, resp)
  \/ \E b \in Docs : ProviderHangs(b)
  \/ \E resp \in ConclusionResponses : ConclusionsRespond(resp)
  \/ \E ok \in BOOLEAN : WriteSettles(ok)

Spec == Init /\ [][Next]_vars

\* The event loop runs every continuation that is ready, and a provider that
\* has not hung answers: each step but the hang itself is weakly fair.
Fairness ==
  /\ WF_vars(\E fs \in FileSets : FilesDiscovered(fs))
  /\ WF_vars(ContentsExtracted)
  /\ WF_vars(Stage5_6)
  /\ \A b \in Docs : WF_vars(\E resp \in AllResponses : Respond(b, resp))
  /\ WF_vars(\E resp \in ConclusionResponses : ConclusionsRespond(resp))
  /\ WF_vars(\E ok \in BOOLEAN : WriteSettles(ok))

FairSpec == Spec /\ Fairness

\* ----------------------------------------------------------- SpecPartition
RECURSIVE SeqsUpTo(_, _)
SeqsUpTo(S, n) ==
  IF n = 0 THEN {<<>>}
  ELSE LET shorter == SeqsUpTo(S, n - 1)
       IN  shorter \cup {Append(q, x) : q \in shorter, x \in S}

RunIdle ==
  /\ env = [google |-> FALSE, openai |-> FALSE]
  /\ clients = [initialized |-> FALSE, googleAI |-> FALSE, openAI |-> FALSE]
  /\ files = <<>>
  /\ excludeLaw = FALSE
  /\ contents = <<>>
  /\ noInput = "none"
  /\ graph = NoGraph
  /\ conclusionArgs = NoArgs
  /\ digestArgs = NoArgs
  /\ batchSize = 1
  /\ maxConcurrent = 1
  /\ includeConclusions = FALSE
  /\ pc = "unused"
  /\ batches = <<>>
  /\ i = 0
  /\ gw = <<>>
  /\ settledOrder = <<>>
  /\ results = <<>>
  /\ outcome = Pending
  /\ factAnalysis = "unset"
  /\ conclusionCalls = <<>>
  /\ conclusions = NoConclusions
  /\ digestWritten = FALSE

\* Any document sequence of up to MaxDocs documents (empty, repeats allowed)
\* and any batch size from 1 to one more than MaxBatchSize.
InitPartition ==
  /\ p_contents \in SeqsUpTo(Docs, MaxDocs)
  /\ p_batchSize \in 1..(MaxBatchSize + 1)
  /\ p_batches = <<>>
  /\ p_pc = "input"
  /\ RunIdle
  /\ RarityIdle
  /\ ClusterIdle
  /\ ConfIdle
  /\ FactIdle
  /\ GraphIdle
  /\ SchedIdle

\* The call createBatches(contents, batchSize).
Partition ==
  /\ p_pc = "input"
  /\ p_batches' = createBatches(p_contents, p_batchSize)
  /\ p_pc' = "returned"
  /\ UNCHANGED <<p_contents, p_batchSize, runVars, confVars, factVars, graphVars, schedVars, rarityVars, clusterVars>>

NextPartition == Partition

SpecPartition == InitPartition /\ [][NextPartition]_vars

\* ---------------------------------------------------------- SpecConfidence
calculateConfidence_KeyFactsOnly(summary) ==
  LET allItems == OrEmpty(summary.keyFacts)
  IN  IF Len(allItems) = 0 THEN <<0, 1>>
      ELSE <<Len(SelectSeq(allItems, HasSourceTag)), Len(allItems)>>

\* calculateConfidence: the quotient linkedItems.length / allItems.length is
\* kept as the pair <<numerator, denominator>>; the literal 0 is <<0, 1>>.
calculateConfidence(summary) ==
  LET allItems == OrEmpty(summary.keyFacts) \o OrEmpty(summary.insights)
  IN  IF Len(allItems) = 0 THEN <<0, 1>>
      ELSE <<Len(SelectSeq(allItems, HasSourceTag)), Len(allItems)>>

\* Strings a provider puts in keyFacts and insights: plain text, text with a
\* citation, a citation that is never closed, a marker in another case.
ItemTexts ==
  { <<"x">>,
    <<"x", " ", "[", "source:", "a.md", "]">>,
    <<"[", "source:", "a.md">>,
    <<"x", "[", "Source:", "a.md", "]">> }

ItemLists == {Undefined} \cup {Arr(q) : q \in SeqsUpTo(ItemTexts, MaxItems)}

InitConfidence ==
  /\ c_summary \in [keyFacts : ItemLists, insights : ItemLists]
  /\ c_confidence = <<0, 1>>
  /\ c_pc = "input"
  /\ RunIdle
  /\ RarityIdle
  /\ ClusterIdle
  /\ PartIdle
  /\ FactIdle
  /\ GraphIdle
  /\ SchedIdle

\* The call calculateConfidence(s) of data.summaries.map(...).
Confidence ==
  /\ c_pc = "input"
  /\ c_confidence' = calculateConfidence(c_summary)
  /\ c_pc' = "returned"
  /\ UNCHANGED <<c_summary, runVars, partVars, factVars, graphVars, schedVars, rarityVars, clusterVars>>

NextConfidence == Confidence

SpecConfidence == InitConfidence /\ [][NextConfidence]_vars

\* --------------------------------------------------------------- SpecFacts
\* The text of a key fact is the sequence of its pieces: a run of words
\* (id > 0 names the run, words its length), a blank, "[source:", a path or
\* "]".  Runs and paths hold no blank and no bracket.
Piece(t, id, words) == [t |-> t, id |-> id, words |-> words]
Blank == Piece(" ", 0, 0)
Open == Piece("[source:", 0, 1)
Close == Piece("]", 0, 1)
PathOf(d) == Piece("path", d, 1)

\* Position of the first "]" of s at or after position from, 0 when none.
RECURSIVE FirstClose(_, _)
FirstClose(s, from) ==
  IF from > Len(s) THEN 0
  ELSE IF s[from] = Close THEN from
  ELSE FirstClose(s, from + 1)

\* fact.replace(/\[source:.*?\]/g, ''): each "[source:" up to the nearest
\* "]" after it is removed; a "[source:" that no "]" follows stays.
RECURSIVE StripTags(_)
StripTags(s) ==
  IF s = <<>> THEN <<>>
  ELSE IF Head(s) = Open /\ FirstClose(s, 2) > 0
         THEN StripTags(SubSeq(s, FirstClose(s, 2) + 1, Len(s)))
         ELSE <<Head(s)>> \o StripTags(Tail(s))

\* String.prototype.trim
RECURSIVE Trim(_)
Trim(s) ==
  IF s = <<>> THEN <<>>
  ELSE IF Head(s) = Blank THEN Trim(Tail(s))
  ELSE IF s[Len(s)] = Blank THEN Trim(SubSeq(s, 1, Len(s) - 1))
  ELSE s

\* const cleanFact = fact.replace(/\[source:.*?\]/g, '').trim()
cleanFact(fact) == Trim(StripTags(fact))

\* fact.split(/\s+/).length: the empty string splits into one empty string;
\* otherwise pieces that touch share a word, blanks separate words.
RECURSIVE WordCount(_)
WordCount(s) ==
  IF s = <<>> THEN 1
  ELSE IF Len(s) = 1 THEN s[1].words
  ELSE IF s[1] = Blank THEN WordCount(Tail(s))
  ELSE IF s[2] = Blank THEN s[1].words + WordCount(Tail(Tail(s)))
  ELSE s[1].words - 1 + WordCount(Tail(s))

\* Index of the entry of factMap whose key is text, 0 when there is none.
IndexOf(factMap, text) ==
  IF \E j \in 1..Len(factMap) : factMap[j].text = text
    THEN CHOOSE j \in 1..Len(factMap) : factMap[j].text = text
    ELSE 0

SetAdd_Push(q, x) == Append(q, x)

\* Set.prototype.add on a set kept in insertion order.
SetAdd(q, x) == IF \E j \in 1..Len(q) : q[j] = x THEN q ELSE Append(q, x)

addFact_CountDocuments(factMap, fact, path) ==
  LET text == cleanFact(fact)
      j    == IndexOf(factMap, text)
  IN  IF j = 0
        THEN Append(factMap, [text |-> text, sources |-> <<path>>, frequency |-> 1])
        ELSE [factMap EXCEPT ![j].sources = SetAdd(@, path),
                             ![j].frequency = Len(SetAdd(factMap[j].sources, path))]

\* The body of the inner loop: a new key enters the Map with frequency 1,
\* a known key gets the path added to its sources and its frequency raised.
addFact(factMap, fact, path) ==
  LET text == cleanFact(fact)
      j    == IndexOf(factMap, text)
  IN  IF j = 0
        THEN Append(factMap, [text |-> text, sources |-> <<path>>, frequency |-> 1])
        ELSE [factMap EXCEPT ![j].sources = SetAdd(@, path),
                             ![j].frequency = @ + 1]

\* The position of the two for loops at or after summary d, key fact k: the
\* next key fact there is, or past the last summary.
RECURSIVE LoopAt(_, _, _)
LoopAt(summaries, d, k) ==
  IF d > Len(summaries) THEN <<d, 1>>
  ELSE IF k <= Len(summaries[d].keyFacts) THEN <<d, k>>
  ELSE LoopAt(summaries, d + 1, 1)

\* The scores of the TfIdf index of the package natural, which the repository
\* does not hold: rarityScore is 0.5 when a fact has no scored term and
\* 1 / (1 + avgTfIdf), strictly between 0 and 1, otherwise.  Scores are in
\* hundredths; a table gives every fact its score.
RarityTables == {"mixed", "rare"}
RarityOf(text, table) ==
  LET id == IF text = <<>> THEN 0 ELSE Head(text).id
  IN  CASE table = "mixed" -> IF id <= 1 THEN 50 ELSE 58 + id
        [] table = "rare"  -> 69 + id

\* facts.map(...): one AnalyzedFact per key of the Map, in insertion order.
analyzedFacts(factMap, table) ==
  [j \in 1..Len(factMap) |->
     [text        |-> factMap[j].text,
      sources     |-> factMap[j].sources,
      frequency   |-> factMap[j].frequency,
      rarityScore |-> RarityOf(factMap[j].text, table),
      wordCount   |-> WordCount(factMap[j].text),
      category    |-> "common"]]

\* Array.prototype.sort((a, b) => b.field - a.field): descending by the
\* field, and stable: equal keys keep their order.
SortDesc(q, field) ==
  LET key  == [a \in 1..Len(q) |-> q[a][field]]
      rank == [a \in 1..Len(q) |->
                 1 + Cardinality({b \in 1..Len(q) :
                                    key[b] > key[a] \/ (key[b] = key[a] /\ b < a)})]
  IN  [r \in 1..Len(q) |-> q[CHOOSE a \in 1..Len(q) : rank[a] = r]]

\* .map(f => ({ ...f, category }))
WithCategory(q, c) == [j \in 1..Len(q) |-> [q[j] EXCEPT !.category = c]]

commonFacts_Untruncated(a) ==
  LET kept == SelectSeq(a, LAMBDA f : f.frequency >= CommonMin)
  IN  WithCategory(SortDesc(kept, "frequency"), "common")

\* analyzedFacts.filter(f => f.frequency >= 3).sort(...).slice(0, 10).map(...)
commonFacts(a) ==
  LET kept == SelectSeq(a, LAMBDA f : f.frequency >= CommonMin)
  IN  WithCategory(Slice(SortDesc(kept, "frequency"), 0, TopN), "common")

unusualFacts_AnyFrequency(a) ==
  LET kept == SelectSeq(a, LAMBDA f : f.rarityScore >= RarityMin)
  IN  WithCategory(Slice(SortDesc(kept, "rarityScore"), 0, TopN), "unusual")

\* analyzedFacts.filter(f => f.frequency === 1 && f.rarityScore >= 0.7)
\*   .sort(...).slice(0, 10).map(...)
unusualFacts(a) ==
  LET kept == SelectSeq(a, LAMBDA f : f.frequency = 1 /\ f.rarityScore >= RarityMin)
  IN  WithCategory(Slice(SortDesc(kept, "rarityScore"), 0, TopN), "unusual")

\* analyzedFacts.filter(f => f.wordCount > 50).sort(...).map(...)
longFacts(a) ==
  LET kept == SelectSeq(a, LAMBDA f : f.wordCount > LongWords)
  IN  WithCategory(SortDesc(kept, "wordCount"), "long")

\* The facts the summaries speak of: two more than a list may hold, fact k a
\* text of LongWords - 1 + k words, so that the first is not long.
NumFacts == TopN + 2
FactText(k) == <<Piece("text", k, LongWords - 1 + k)>>

\* What may follow the facts of a summary: nothing, the last fact again with
\* its citation, or the last fact with a citation that is never closed.
Tails == {"none", "cited", "unclosed"}
TailOf(tail, d) ==
  CASE tail = "none"     -> <<>>
    [] tail = "cited"    -> <<FactText(NumFacts) \o <<Blank, Open, PathOf(d), Close>>>>
    [] tail = "unclosed" -> <<FactText(NumFacts) \o <<Blank, Open, PathOf(d)>>>>

\* Where the facts of a summary start: after up to MaxSkip of the first
\* facts, at the last fact, or past it (no fact at all).
Starts == 1..(1 + MaxSkip) \cup {NumFacts, NumFacts + 1}

\* The summary of document d: the facts lo .. NumFacts in plain words, then
\* the tail unless the summary has no fact.
SummaryOf(d, lo, tail) ==
  [path     |-> d,
   keyFacts |-> IF lo > NumFacts THEN <<>>
                ELSE [k \in 1..(NumFacts - lo + 1) |-> FactText(lo + k - 1)]
                     \o TailOf(tail, d)]

InitFacts ==
  /\ \E n \in 0..MaxDocs : \E lo \in [1..n -> Starts] : \E tail \in Tails :
       f_summaries = [d \in 1..n |-> SummaryOf(d, lo[d], tail)]
  /\ f_factMap = <<>>
  /\ f_at = LoopAt(f_summaries, 1, 1)
  /\ f_analyzed = <<>>
  /\ f_result = [common |-> <<>>, unusual |-> <<>>, long |-> <<>>]
  /\ f_pc = "collect"
  /\ RunIdle
  /\ RarityIdle
  /\ ClusterIdle
  /\ PartIdle
  /\ ConfIdle
  /\ GraphIdle
  /\ SchedIdle

\* analyzeFacts, one turn of for (const fact of summary.keyFacts) inside
\* for (const summary of summaries).
Collect ==
  /\ f_pc = "collect"
  /\ f_at[1] <= Len(f_summaries)
  /\ LET summary == f_summaries[f_at[1]]
     IN  f_factMap' = addFact(f_factMap, summary.keyFacts[f_at[2]], summary.path)
  /\ f_at' = LoopAt(f_summaries, f_at[1], f_at[2] + 1)
  /\ UNCHANGED <<f_summaries, f_analyzed, f_result, f_pc, runVars, partVars, confVars, graphVars, schedVars, rarityVars, clusterVars>>

\* analyzeFacts after the loop: the index is built and scored, the facts are
\* analyzed and the three lists returned.
Categorize(table) ==
  /\ f_pc = "collect"
  /\ f_at[1] > Len(f_summaries)
  /\ LET a == analyzedFacts(f_factMap, table)
     IN  /\ f_analyzed' = a
         /\ f_result' = [common |-> commonFacts(a), unusual |-> unusualFacts(a),
                         long |-> longFacts(a)]
  /\ f_pc' = "returned"
  /\ UNCHANGED <<f_summaries, f_factMap, f_at, runVars, partVars, confVars, graphVars, schedVars, rarityVars, clusterVars>>

NextFacts ==
  \/ Collect
  \/ \E table \in RarityTables : Categorize(table)

SpecFacts == InitFacts /\ [][NextFacts]_vars

\* -------------------------------------------------------------- SpecGraph
\* A label is a sequence of characters.
toLowerCase(label) ==
  [k \in 1..Len(label) |->
     IF label[k] = "A" THEN "a" ELSE IF label[k] = "B" THEN "b" ELSE label[k]]

RECURSIVE trimStart(_)
trimStart(label) ==
  IF label # <<>> /\ Head(label) = " " THEN trimStart(Tail(label)) ELSE label

RECURSIVE trimEnd(_)
trimEnd(label) ==
  IF label # <<>> /\ label[Len(label)] = " "
    THEN trimEnd(SubSeq(label, 1, Len(label) - 1)) ELSE label

trim(label) == trimEnd(trimStart(label))

\* const normalized = label.trim().toLowerCase()
normalized(label) == toLowerCase(trim(label))

\* entityMap.has(key) and entityMap.get(key): the position in nodes of the
\* node kept under key, 0 when there is none.
NodeAt(entityMap, key) ==
  IF \E j \in 1..Len(entityMap) : entityMap[j].key = key
    THEN entityMap[CHOOSE j \in 1..Len(entityMap) : entityMap[j].key = key].node
    ELSE 0

addOrUpdateNode_NoTrim(label, type, source, entityMap, nodes) ==
  LET key == toLowerCase(label)
      at  == NodeAt(entityMap, key)
  IN  IF at # 0
        THEN [entityMap |-> entityMap,
              nodes |-> [nodes EXCEPT ![at].sources = SetAdd(@, source)]]
        ELSE [entityMap |-> Append(entityMap, [key |-> key, node |-> Len(nodes) + 1]),
              nodes |-> Append(nodes, [id |-> Len(nodes), type |-> type, label |-> label,
                                       sources |-> <<source>>])]

\* addOrUpdateNode: a known key gets the source added unless it is there, a
\* new key gets a node with the label as written and the one source.
addOrUpdateNode(label, type, source, entityMap, nodes) ==
  LET key == normalized(label)
      at  == NodeAt(entityMap, key)
  IN  IF at # 0
        THEN [entityMap |-> entityMap,
              nodes |-> [nodes EXCEPT ![at].sources = SetAdd(@, source)]]
        ELSE [entityMap |-> Append(entityMap, [key |-> key, node |-> Len(nodes) + 1]),
              nodes |-> Append(nodes, [id |-> Len(nodes), type |-> type, label |-> label,
                                       sources |-> <<source>>])]

\* The position of the loops of buildKnowledgeGraph at or after file d,
\* mention k: the next mention there is, or past the last file.
RECURSIVE MentionAt(_, _, _)
MentionAt(fs, d, k) ==
  IF d > Len(fs) THEN <<d, 1>>
  ELSE IF k <= Len(fs[d].mentions) THEN <<d, k>>
  ELSE MentionAt(fs, d + 1, 1)

\* targetMap.set(otherNormalized, (targetMap.get(otherNormalized) || 0) + 1)
Increment(targetMap, key) ==
  IF \E j \in 1..Len(targetMap) : targetMap[j].key = key
    THEN [j \in 1..Len(targetMap) |->
            IF targetMap[j].key = key
              THEN [targetMap[j] EXCEPT !.count = @ + 1] ELSE targetMap[j]]
    ELSE Append(targetMap, [key |-> key, count |-> 1])

\* entities.forEach(other => ...): every other mention of the list whose
\* normalized label differs adds one to its counter.
RECURSIVE TrackEach(_, _, _)
TrackEach(targetMap, key, entities) ==
  IF entities = <<>> THEN targetMap
  ELSE LET otherNormalized == normalized(Head(entities))
       IN  TrackEach(IF key # otherNormalized
                       THEN Increment(targetMap, otherNormalized) ELSE targetMap,
                     key, Tail(entities))

trackCoOccurrences_FirstMentionOnly(entity, entities, coOccurrences) ==
  LET key == normalized(entity)
  IN  IF \E j \in 1..Len(coOccurrences) : coOccurrences[j].key = key
        THEN coOccurrences
        ELSE Append(coOccurrences,
                    [key |-> key, targets |-> TrackEach(<<>>, key, entities)])

\* trackCoOccurrences(entity, entities, coOccurrences): the Map of the
\* entity's normalized label, made if it is not there, counts the list.
trackCoOccurrences(entity, entities, coOccurrences) ==
  LET key == normalized(entity)
      co  == IF \E j \in 1..Len(coOccurrences) : coOccurrences[j].key = key
               THEN coOccurrences
               ELSE Append(coOccurrences, [key |-> key, targets |-> <<>>])
  IN  [j \in 1..Len(co) |->
         IF co[j].key = key
           THEN [co[j] EXCEPT !.targets = TrackEach(@, key, entities)] ELSE co[j]]

edgeWeight_Unclamped(count, total) == Ratio(count, total)

\* Math.min(count / files.length, 1.0)
edgeWeight(count, total) ==
  IF count >= total THEN Ratio(1, 1) ELSE Ratio(count, total)

\* targets.forEach((count, target) => ...) for one source of coOccurrences:
\* an edge for every target when both labels have a node and differ.
EdgesFrom(entry, entityMap, nodes, total) ==
  LET from == NodeAt(entityMap, entry.key)
      kept == SelectSeq(entry.targets,
                        LAMBDA t : /\ from # 0
                                   /\ NodeAt(entityMap, t.key) # 0
                                   /\ entry.key # t.key)
  IN  [j \in 1..Len(kept) |->
         [source |-> nodes[from].id,
          target |-> nodes[NodeAt(entityMap, kept[j].key)].id,
          type   |-> "co-occurs",
          weight |-> edgeWeight(kept[j].count, total)]]

\* coOccurrences.forEach((targets, source) => ...)
buildEdges(coOccurrences, entityMap, nodes, total) ==
  Flat([j \in 1..Len(coOccurrences) |->
          EdgesFrom(coOccurrences[j], entityMap, nodes, total)])

\* What compromise extracts from a file and the loops pass on, in order: the
\* list of people, whose labels become entities and are counted against the
\* list, then the first ten nouns longer than three characters, which become
\* concepts.  Places and organizations are lists handled as people are.
\* Three labels: two with the same letters in another case and with a space
\* after, and one with other letters and a space before.
Mention(label, type) ==
  [label |-> label, type |-> type,
   list |-> IF type = "concept" THEN "topics" ELSE "people"]
Mentions ==
  {Mention(<<"A", "b">>, "entity"), Mention(<<"a", "b", " ">>, "concept"),
   Mention(<<" ", "B">>, "entity")}
GraphFile(d, ms) == [path |-> d, mentions |-> ms]

\* The mentions of a file in the order of the loops: people before topics.
InLoopOrder(ms) ==
  \A a, b \in 1..Len(ms) : (a < b /\ ms[a].list = "topics") => ms[b].list = "topics"
FileMentions == {ms \in SeqsUpTo(Mentions, MaxMentions) : InLoopOrder(ms)}

\* const people = doc.people().out('array'): the labels of one list of a file.
ListOf(file, list) ==
  LET of == SelectSeq(file.mentions, LAMBDA m : m.list = list)
  IN  [j \in 1..Len(of) |-> of[j].label]

\* Up to MaxFiles files with up to MaxMentions mentions in all.
InitGraph ==
  /\ \E n \in 0..MaxFiles :
       \E ms \in [1..n -> FileMentions] :
         /\ SumLen(ms) <= MaxMentions
         /\ g_files = [d \in 1..n |-> GraphFile(d, ms[d])]
  /\ g_entityMap = <<>>
  /\ g_nodes = <<>>
  /\ g_coOccurrences = <<>>
  /\ g_edges = <<>>
  /\ g_at = MentionAt(g_files, 1, 1)
  /\ g_pc = "build"
  /\ RunIdle
  /\ RarityIdle
  /\ ClusterIdle
  /\ PartIdle
  /\ ConfIdle
  /\ FactIdle
  /\ SchedIdle

\* One pass of a forEach of buildKnowledgeGraph, for the mention the loops
\* are at: addOrUpdateNode and, for a mention of an entity list,
\* trackCoOccurrences against that list.
AddMention ==
  /\ g_pc = "build"
  /\ g_at[1] <= Len(g_files)
  /\ LET file == g_files[g_at[1]]
         m    == file.mentions[g_at[2]]
         r    == addOrUpdateNode(m.label, m.type, file.path, g_entityMap, g_nodes)
     IN  /\ g_entityMap' = r.entityMap
         /\ g_nodes' = r.nodes
         /\ g_coOccurrences' =
              IF m.list = "topics" THEN g_coOccurrences
              ELSE trackCoOccurrences(m.label, ListOf(file, m.list), g_coOccurrences)
  /\ g_at' = MentionAt(g_files, g_at[1], g_at[2] + 1)
  /\ UNCHANGED <<g_files, g_edges, g_pc, runVars, partVars, confVars, factVars,
                 schedVars, rarityVars, clusterVars>>

\* buildKnowledgeGraph after the loops over the files: the edges are built
\* from coOccurrences and the graph is returned.
ReturnGraph ==
  /\ g_pc = "build"
  /\ g_at[1] > Len(g_files)
  /\ g_edges' = buildEdges(g_coOccurrences, g_entityMap, g_nodes, Len(g_files))
  /\ g_pc' = "returned"
  /\ UNCHANGED <<g_files, g_entityMap, g_nodes, g_coOccurrences, g_at, runVars,
                 partVars, confVars, factVars, schedVars, rarityVars, clusterVars>>

NextGraph ==
  \/ AddMention
  \/ ReturnGraph

SpecGraph == InitGraph /\ [][NextGraph]_vars

\* ---------------------------------------------------------- SpecScheduler
\* The processor's promise for a batch and the number of calls of the
\* processor on it.
NotCalled == [st |-> "idle", starts |-> 0, value |-> <<>>]

\* chunk.map(processor) for the chunk at loop index k, with a processor that
\* returns a pending promise.
CallProcessor(calls, bs, k, c) ==
  [b \in 1..Len(bs) |->
     IF b \in ChunkIdx(Len(bs), k, c)
       THEN [st |-> "pending", starts |-> calls[b].starts + 1, value |-> <<>>]
       ELSE calls[b]]

\* processBatchesInParallel at the await of the chunk at loop index k: it
\* stays there while Promise.all is pending, throws when it rejects, and on
\* its fulfilment pushes the chunk's results and starts the next chunk or
\* returns.
AwaitChunk(calls, bs, k, c, res) ==
  LET n     == Len(bs)
      chunk == ChunkIdx(n, k, c)
      st    == PromiseAll(calls, chunk)
      res2  == res \o Flat([j \in 1..Cardinality(chunk) |-> calls[k + j].value])
  IN  CASE st = "pending" ->
             [calls |-> calls, i |-> k, results |-> res, outcome |-> Pending]
        [] st = "rejected" ->
             [calls |-> calls, i |-> k, results |-> res,
              outcome |-> [state |-> "rejected", value |-> <<>>, error |-> NoError]]
        [] OTHER ->
             IF k + c < n
               THEN [calls |-> CallProcessor(calls, bs, k + c, c), i |-> k + c,
                     results |-> res2, outcome |-> Pending]
               ELSE [calls |-> calls, i |-> k + c, results |-> res2,
                     outcome |-> [state |-> "resolved", value |-> res2,
                                  error |-> NoError]]

\* Up to MaxDocs + 1 documents, any batch size and cap within the bounds.
SchedDocs == 1..(MaxDocs + 1)

InitScheduler ==
  /\ \E n \in 0..(MaxDocs + 1) : s_contents = [k \in 1..n |-> k]
  /\ s_batchSize \in 1..MaxBatchSize
  /\ s_maxConcurrent \in 1..MaxConcurrent
  /\ s_batches = <<>>
  /\ s_i = 0
  /\ s_calls = <<>>
  /\ s_results = <<>>
  /\ s_outcome = Pending
  /\ s_pc = "input"
  /\ RunIdle
  /\ RarityIdle
  /\ ClusterIdle
  /\ PartIdle
  /\ ConfIdle
  /\ FactIdle
  /\ GraphIdle

\* createBatches, then processBatchesInParallel up to its first await, or to
\* its return when there is no batch.
CallScheduler ==
  /\ s_pc = "input"
  /\ LET bs == createBatches(s_contents, s_batchSize)
         r  == IF 0 < Len(bs)
                 THEN AwaitChunk(CallProcessor([b \in 1..Len(bs) |-> NotCalled], bs, 0,
                                               s_maxConcurrent),
                                 bs, 0, s_maxConcurrent, <<>>)
                 ELSE [calls |-> <<>>, i |-> 0, results |-> <<>>,
                       outcome |-> [state |-> "resolved", value |-> <<>>,
                                    error |-> NoError]]
     IN  /\ s_batches' = bs
         /\ s_calls' = r.calls
         /\ s_i' = r.i
         /\ s_results' = r.results
         /\ s_outcome' = r.outcome
         /\ s_pc' = IF r.outcome.state = "pending" THEN "await" ELSE "returned"
  /\ UNCHANGED <<s_contents, s_batchSize, s_maxConcurrent, runVars, partVars, confVars,
                 factVars, graphVars, rarityVars, clusterVars>>

\* The processor's promise for batch b settles, fulfilled with the batch's
\* results (ok) or rejected; processBatchesInParallel, if it still awaits,
\* resumes when Promise.all settles with it.
Settle(b, ok) ==
  /\ b \in 1..Len(s_calls)
  /\ s_calls[b].st = "pending"
  /\ LET c1 == [s_calls EXCEPT ![b].st = IF ok THEN "fulfilled" ELSE "rejected",
                               ![b].value = IF ok THEN s_batches[b].items ELSE <<>>]
         r  == IF s_pc = "await"
                 THEN AwaitChunk(c1, s_batches, s_i, s_maxConcurrent, s_results)
                 ELSE [calls |-> c1, i |-> s_i, results |-> s_results,
                       outcome |-> s_outcome]
     IN  /\ s_calls' = r.calls
         /\ s_i' = r.i
         /\ s_results' = r.results
         /\ s_outcome' = r.outcome
         /\ s_pc' = IF r.outcome.state = "pending" THEN "await" ELSE "returned"
  /\ UNCHANGED <<s_contents, s_batchSize, s_maxConcurrent, s_batches, runVars,
                 partVars, confVars, factVars, graphVars, rarityVars, clusterVars>>

NextScheduler ==
  \/ CallScheduler
  \/ \E b \in SchedDocs : \E ok \in BOOLEAN : Settle(b, ok)

SpecScheduler == InitScheduler /\ [][NextScheduler]_vars

\* Every promise the processor returned settles.
FairScheduler ==
  /\ SpecScheduler
  /\ WF_vars(CallScheduler)
  /\ \A b \in SchedDocs : WF_vars(\E ok \in BOOLEAN : Settle(b, ok))

\* -------------------------------------------------------------- SpecRarity
\* The rarity computation of analyzeFacts on the scores of one or two facts.
\* A score is an item.tfidf of tfidf.listTerms(index), a non-negative number,
\* here a whole number up to MaxScore; a fact whose text leaves no term after
\* stopword removal has no score.  Quotients are kept exact.

\* scores.reduce((a, b) => a + b, 0)
RECURSIVE SumScores(_)
SumScores(scores) ==
  IF scores = <<>> THEN 0 ELSE Head(scores) + SumScores(Tail(scores))

\* scores.length > 0 ? scores.reduce(...) / scores.length : 0
avgTfIdf(scores) ==
  IF Len(scores) > 0 THEN Ratio(SumScores(scores), Len(scores)) ELSE Ratio(0, 1)

rarityScore_NoDefault(scores) ==
  LET avg == avgTfIdf(scores)
  IN  Ratio(avg.den, avg.den + avg.num)

\* avgTfIdf > 0 ? 1 / (1 + avgTfIdf) : 0.5
rarityScore(scores) ==
  LET avg == avgTfIdf(scores)
  IN  IF avg.num > 0 THEN Ratio(avg.den, avg.den + avg.num) ELSE Ratio(1, 2)

ScoreLists == SeqsUpTo(0..MaxScore, MaxItems)

InitRarity ==
  /\ RunIdle
  /\ PartIdle
  /\ ConfIdle
  /\ FactIdle
  /\ GraphIdle
  /\ SchedIdle
  /\ ClusterIdle
  /\ r_scores \in SeqsUpTo(ScoreLists, 2)
  /\ r_rarity = <<>>
  /\ r_pc = "input"

\* facts.map((fact, index) => ...): the rarityScore of every fact.
Rate ==
  /\ r_pc = "input"
  /\ r_rarity' = [j \in 1..Len(r_scores) |-> rarityScore(r_scores[j])]
  /\ r_pc' = "returned"
  /\ UNCHANGED <<r_scores, runVars, partVars, confVars, factVars, graphVars,
                 schedVars, clusterVars>>

NextRarity == Rate

SpecRarity == InitRarity /\ [][NextRarity]_vars

\* ------------------------------------------------------------- SpecCluster
\* clusterEntities on up to MaxNodes nodes.  A node's label is one word, a
\* sequence of characters that removeStopwords keeps.  kmeans is the package
\* ml-kmeans: a call throws, or returns the cluster index of every vector
\* and the centroids; of a centroid the model keeps one number, the average
\* distance in hundredths of its cluster's vectors from it.
GraphNode(j, label) == [id |-> j, label |-> label]
NodeLabels == {<<"A", "b", "b", "a">>, <<"B", "a", "b">>, <<"b", "a", "b", "a">>}
Spreads == {0, 100, 300}

\* The elements of q at the positions in S, in order.
Pick(q, S) ==
  [r \in 1..Cardinality(S) |->
     q[CHOOSE j \in S : Cardinality({m \in S : m < j}) = r - 1]]

\* The distinct elements of q in the order of their first appearance: the
\* keys of a Map or the elements of a Set filled in the order of q.
InsertionOrder(q) ==
  Pick(q, {j \in 1..Len(q) : \A m \in 1..(j - 1) : q[m] # q[j]})

\* w.charAt(0).toUpperCase() + w.slice(1)
Capitalize(w) ==
  [c \in 1..Len(w) |->
     IF c = 1 /\ w[c] = "a" THEN "A" ELSE IF c = 1 /\ w[c] = "b" THEN "B" ELSE w[c]]

\* const vocabArray = Array.from(vocabulary)
vocabArray(nodes) == InsertionOrder([j \in 1..Len(nodes) |-> toLowerCase(nodes[j].label)])

\* const vectors: for every node the 0/1 vector of its words over vocabArray.
vectors(nodes) ==
  LET vocab == vocabArray(nodes)
  IN  [j \in 1..Len(nodes) |->
         [w \in 1..Len(vocab) |-> IF vocab[w] = toLowerCase(nodes[j].label) THEN 1 ELSE 0]]

\* Math.max(2, Math.min(Math.floor(Math.sqrt(nodes.length / 2)), 10))
FloorSqrtHalf(n) == CHOOSE m \in 0..n : 2 * m * m <= n /\ 2 * (m + 1) * (m + 1) > n
OptimalK(n) ==
  LET m == Min(FloorSqrtHalf(n), 10)
  IN  IF m < 2 THEN 2 ELSE m

\* What a call kmeans(vectors, k) may do.
KmeansOutcomes(n, kk) ==
  {[threw |-> TRUE, clusters |-> <<>>, centroids |-> <<>>]}
    \cup {[threw |-> FALSE, clusters |-> cl, centroids |-> ce] :
            cl \in [1..n -> 0..(kk - 1)], ce \in [1..kk -> Spreads]}

\* The cluster returned when there is nothing to partition.
AllEntities == <<"A", "l", "l", " ", "E", "n", "t", "i", "t", "i", "e", "s">>
TrivialCluster(nodes) ==
  [id |-> 0, label |-> AllEntities, entities |-> nodes, centroid |-> <<>>,
   coherenceScore |-> 100]

\* The label of a cluster: its two most frequent words of more than three
\* characters, capitalized and joined, or "Cluster <id>" without such a word.
ClusterLabel(entities, clusterId) ==
  LET allWords == [j \in 1..Len(entities) |-> toLowerCase(entities[j].label)]
      counted  == SelectSeq(allWords, LAMBDA w : Len(w) > 3)
      keys     == InsertionOrder(counted)
      entries  == [j \in 1..Len(keys) |->
                     [word  |-> keys[j],
                      count |-> Cardinality({m \in 1..Len(counted) : counted[m] = keys[j]})]]
      topWords == Slice(SortDesc(entries, "count"), 0, 2)
  IN  IF Len(topWords) = 0
        THEN <<"C", "l", "u", "s", "t", "e", "r", " ", ToString(clusterId)>>
      ELSE IF Len(topWords) = 1 THEN Capitalize(topWords[1].word)
      ELSE Capitalize(topWords[1].word) \o <<" ", "&", " ">> \o Capitalize(topWords[2].word)

\* The clusters built from a result of kmeans, in the order in which the
\* cluster indices first appear in result.clusters.
BuildClusters(nodes, result) ==
  LET ids == InsertionOrder(result.clusters)
  IN  [c \in 1..Len(ids) |->
         LET entities == Pick(nodes, {j \in 1..Len(nodes) : result.clusters[j] = ids[c]})
             centroid == result.centroids[ids[c] + 1]
             scaled   == 100 - (centroid \div 2)
         IN  [id |-> ids[c],
              label |-> ClusterLabel(entities, ids[c]),
              entities |-> entities,
              centroid |-> <<centroid>>,
              coherenceScore |-> IF scaled < 0 THEN 0 ELSE scaled]]

\* The call kmeans(vectors, k, ...) and whether it threw.
KmeansCall(nodes, result) ==
  [vectors |-> vectors(nodes), k |-> OptimalK(Len(nodes)), threw |-> result.threw]
ClusterReturn(clusters, calls) == [threw |-> FALSE, clusters |-> clusters, kmeans |-> calls]
ClusterThrow(calls) == [threw |-> TRUE, clusters |-> <<>>, kmeans |-> calls]

clusterEntities_FewerThanTwo(nodes, result) ==
  IF Len(nodes) < 2 THEN ClusterReturn(<<TrivialCluster(nodes)>>, <<>>)
  ELSE IF result.threw THEN ClusterReturn(<<TrivialCluster(nodes)>>, <<KmeansCall(nodes, result)>>)
  ELSE ClusterReturn(BuildClusters(nodes, result), <<KmeansCall(nodes, result)>>)

clusterEntities_Rethrow(nodes, result) ==
  IF Len(nodes) < 3 THEN ClusterReturn(<<TrivialCluster(nodes)>>, <<>>)
  ELSE IF result.threw THEN ClusterThrow(<<KmeansCall(nodes, result)>>)
  ELSE ClusterReturn(BuildClusters(nodes, result), <<KmeansCall(nodes, result)>>)

\* clusterEntities(nodes, logger), where result is what the call of kmeans
\* does if it is made: the value returned or the error thrown, and the calls
\* of kmeans made.
clusterEntities(nodes, result) ==
  IF Len(nodes) < 3 THEN ClusterReturn(<<TrivialCluster(nodes)>>, <<>>)
  ELSE IF result.threw THEN ClusterReturn(<<TrivialCluster(nodes)>>, <<KmeansCall(nodes, result)>>)
  ELSE ClusterReturn(BuildClusters(nodes, result), <<KmeansCall(nodes, result)>>)

InitCluster ==
  /\ RunIdle
  /\ PartIdle
  /\ ConfIdle
  /\ FactIdle
  /\ GraphIdle
  /\ SchedIdle
  /\ RarityIdle
  /\ \E n \in 0..MaxNodes :
       \E labels \in [1..n -> NodeLabels] :
         k_nodes = [j \in 1..n |-> GraphNode(j, labels[j])]
  /\ k_kmeans = <<>>
  /\ k_result = [threw |-> FALSE, clusters |-> <<>>]
  /\ k_pc = "input"

\* One call of clusterEntities.
Cluster ==
  /\ k_pc = "input"
  /\ \E result \in KmeansOutcomes(Len(k_nodes), OptimalK(Len(k_nodes))) :
       LET r == clusterEntities(k_nodes, result)
       IN  /\ k_kmeans' = r.kmeans
           /\ k_result' = [threw |-> r.threw, clusters |-> r.clusters]
  /\ k_pc' = "returned"
  /\ UNCHANGED <<k_nodes, runVars, partVars, confVars, factVars, graphVars,
                 schedVars, rarityVars>>

NextCluster == Cluster

SpecCluster == InitCluster /\ [][NextCluster]_vars

\* ================================================================= claims
Batches == 1..Len(gw)
InFlightSet == {b \in Batches : InFlight(gw[b])}
BothConfigured == env.google /\ env.openai
Values == [b \in 1..Len(gw) |-> gw[b].value]

\* C1: at every instant of processBatchesInParallel at most maxConcurrent
\* summarizeBatch invocations are in flight, whatever the number of batches.
C1_AtMostCapInFlight == Cardinality(InFlightSet) <= maxConcurrent

\* The cap is reached while a further batch still waits for its group.
C1_Witness ==
  /\ Len(batches) > maxConcurrent
  /\ maxConcurrent = 2
  /\ Cardinality(InFlightSet) = 2
  /\ \E b \in Batches : gw[b].st = "idle"

\* C2: when every batch succeeds, the resolved value is the concatenation
\* of the batches' result sequences in input batch order, whatever order the
\* batches completed in, and its length is the sum of their lengths.
C2_ResultsInBatchOrder ==
  outcome.state = "resolved" =>
    /\ outcome.value = Flat(Values)
    /\ Len(outcome.value) = SumLen(Values)
    /\ \A b \in Batches : gw[b].st = "fulfilled"

\* Resolved after the batches of the last chunk completed in reverse order.
C2_Witness ==
  /\ outcome.state = "resolved"
  /\ Len(settledOrder) = 2
  /\ settledOrder[1] > settledOrder[2]
  /\ \A b \in Batches : gw[b].value # <<>>

\* C3: once summarizeBatch has failed for a batch, processBatchesInParallel
\* is rejected with the failure of the batch that failed first, returns no
\* value, and no batch of a later chunk has been started.
C3_FailureAborts ==
  (\E b \in Batches : gw[b].st = "rejected") =>
    /\ outcome.state = "rejected"
    /\ outcome.value = <<>>
    /\ LET rej == {b \in Batches : gw[b].st = "rejected"}
       IN  outcome.error = gw[CHOOSE b \in rej : \A x \in rej : b <= x].error
    /\ \A b \in Batches : b > i + maxConcurrent => gw[b].st = "idle"

\* A batch fails after an earlier chunk succeeded and while a later chunk waits.
C3_Witness ==
  /\ outcome.state = "rejected"
  /\ results # <<>>
  /\ Len(batches) > i + maxConcurrent
  /\ gw[Len(batches)].st = "idle"

\* C4: with both providers configured, a failed primary attempt is followed
\* by one attempt at the secondary with the same batch items; if that one
\* succeeds the batch is fulfilled with the secondary's summaries, and if it
\* fails the batch is rejected with the secondary's error and no summaries.
C4_FallbackOnPrimaryFailure ==
  BothConfigured =>
    \A b \in Batches :
      LET a == gw[b].attempts
      IN  (Len(a) >= 1 /\ a[1].outcome = "failed") =>
            /\ a[1].provider = "google"
            /\ Len(a) = 2
            /\ a[2].provider = "openai"
            /\ a[2].payload = batches[b].items
            /\ a[2].payload = a[1].payload
            /\ a[2].outcome = "ok" =>
                 /\ gw[b].st = "fulfilled"
                 /\ \A k \in 1..Len(gw[b].value) : gw[b].value[k].model = FallbackModel
            /\ a[2].outcome = "failed" =>
                 /\ gw[b].st = "rejected"
                 /\ gw[b].value = <<>>
                 /\ gw[b].error.provider = "openai"

\* The primary failed, the secondary answered and its summaries were returned.
C4_Witness ==
  /\ BothConfigured
  /\ \E b \in Batches :
       /\ Len(gw[b].attempts) = 2
       /\ gw[b].attempts[1].outcome = "failed"
       /\ gw[b].attempts[2].outcome = "ok"
       /\ gw[b].st = "fulfilled"
       /\ gw[b].value # <<>>

\* C5: summarizeBatch either fails or returns exactly one summary per
\* document of the batch, the k-th summary being that of the k-th document.
C5_OneSummaryPerDocument ==
  \A b \in Batches :
    gw[b].st = "fulfilled" =>
      /\ Len(gw[b].value) = Len(batches[b].items)
      /\ \A k \in 1..Len(gw[b].value) : gw[b].value[k].file = batches[b].items[k]

\* C6: a call that never responds is bounded by the per-call timeout, so
\* every summarizeBatch invocation in flight eventually settles (or the run
\* has ended), even if its provider hangs forever.
C6_HungCallCompletes ==
  \A b \in Docs :
    (b \in Batches /\ InFlight(gw[b])) ~> (pc # "stage6" \/ ~(b \in Batches /\ InFlight(gw[b])))

NonConforming == {"unparseable", "no_summaries", "lacking_fields"}

\* The step is one in which batch b's pending call was answered by resp and
\* summarizeBatch resumed: a Respond(b, resp) step, told by what it does to b.
Answered(b, resp) ==
  /\ pc = "stage6"
  /\ Awaiting(b)
  /\ resp.kind = "json" => Len(resp.summaries) <= Len(batches[b].items) + 1
  /\ gw'[b] = ResumeBatch(gw[b], clients, resp, b)

Defaulted(fs) ==
  /\ fs.summary = "No summary provided"
  /\ fs.keyFacts = "[]"
  /\ fs.insights = "[]"
  /\ fs.statistics = "{}"
  /\ fs.sources = "[]"

NoUndefined(fs) ==
  "undefined" \notin {fs.summary, fs.keyFacts, fs.insights, fs.statistics, fs.sources}

\* What summarizeBatch does with batch b on a failed attempt, whatever made
\* it fail: the secondary is called with the same items when this was the
\* primary of two providers, and the batch is rejected without summaries
\* otherwise.
FailurePath(b) ==
  LET k == Len(gw[b].attempts)
  IN  /\ gw'[b].attempts[k].outcome = "failed"
      /\ gw'[b].value = <<>>
      /\ IF gw[b].st = "primary" /\ BothConfigured
           THEN /\ gw'[b].st = "fallback"
                /\ Len(gw'[b].attempts) = k + 1
                /\ gw'[b].attempts[k + 1] = Attempt("openai", batches[b].items)
           ELSE /\ gw'[b].st = "rejected"
                /\ Len(gw'[b].attempts) = k

HasKey(provider) == IF provider = "google" THEN env.google ELSE env.openai

\* C8: the clients, once resolved, are exactly the providers whose key is
\* set; no call ever goes to a provider without a key, from summarizeBatch
\* or from generateConclusions; and with no key at all the first
\* summarizeBatch fails and ends the run with no outbound call made.
C8_ProvidersResolvedFromCredentials ==
  /\ clients.initialized => (clients.googleAI = env.google /\ clients.openAI = env.openai)
  /\ \A b \in Batches : \A k \in 1..Len(gw[b].attempts) : HasKey(gw[b].attempts[k].provider)
  /\ \A k \in 1..Len(conclusionCalls) : HasKey(conclusionCalls[k])
  /\ (~env.google /\ ~env.openai /\ gw # <<>>) =>
       /\ pc = "exit1"
       /\ outcome.state = "rejected"
       /\ outcome.error.kind = "missing_keys"
       /\ \A b \in Batches : gw[b].attempts = <<>>
       /\ conclusionCalls = <<>>

\* Only the secondary has a key: its summarizeBatch call failed, and the
\* primary was not tried instead.
C8_Witness ==
  /\ ~env.google
  /\ env.openai
  /\ \E b \in Batches :
       /\ gw[b].st = "rejected"
       /\ Len(gw[b].attempts) = 1
       /\ gw[b].attempts[1].provider = "openai"

\* C9: once a batch has failed at the Gateway, the run has ended in the
\* catch block: no fact analysis, no conclusions call, no digest written.
C9_FailedBatchAbortsRun ==
  (\E b \in Batches : gw[b].st = "rejected") =>
    /\ pc = "exit1"
    /\ factAnalysis = "unset"
    /\ conclusionCalls = <<>>
    /\ conclusions = NoConclusions
    /\ ~digestWritten

\* Both providers failed for a batch after earlier batches had succeeded.
C9_Witness ==
  /\ pc = "exit1"
  /\ results # <<>>
  /\ \E b \in Batches :
       /\ gw[b].st = "rejected"
       /\ Len(gw[b].attempts) = 2
       /\ gw[b].attempts[2].outcome = "failed"

PartItems == [k \in 1..Len(p_batches) |-> p_batches[k].items]

\* C10: createBatches returns ceil(N/B) batches of 1..B documents each whose
\* concatenation in order is the input sequence; none for the empty input.
C10_PartitionExact ==
  p_pc = "returned" =>
    LET N == Len(p_contents)
        B == p_batchSize
    IN  /\ Len(p_batches) = (N + B - 1) \div B
        /\ \A k \in 1..Len(p_batches) :
             Len(p_batches[k].items) >= 1 /\ Len(p_batches[k].items) <= B
        /\ Flat(PartItems) = p_contents
        /\ N = 0 => p_batches = <<>>
        /\ \A j, k \in 1..Len(p_batches) : j # k => p_batches[j].id # p_batches[k].id

\* Three documents in batches of two: a full batch and a shorter last one.
C10_Witness ==
  /\ p_pc = "returned"
  /\ Len(p_contents) = 3
  /\ p_batchSize = 2
  /\ Len(p_batches) = 2

\* The strings of the per-file object, key facts first, and the positions of
\* those that carry a "[source:" marker.
C11_Items == c_summary.keyFacts.items \o c_summary.insights.items
C11_Tagged ==
  {j \in 1..Len(C11_Items) :
     \E k \in 2..Len(C11_Items[j]) :
       <<C11_Items[j][k - 1], C11_Items[j][k]>> = <<"[", "source:">>}

\* C11: the confidence calculateConfidence returns for a per-file object is
\* (strings of keyFacts and insights containing "[source:") / (all strings of
\* keyFacts and insights), and 0 when there are none: 1 when all are tagged,
\* 0 when none is, 1/2 when exactly half are, and always within [0, 1].
C11_ConfidenceIsTaggedShare ==
  c_pc = "returned" =>
    LET total  == Len(C11_Items)
        tagged == Cardinality(C11_Tagged)
        num    == c_confidence[1]
        den    == c_confidence[2]
    IN  /\ den > 0 /\ 0 <= num /\ num <= den
        /\ total = 0 => num = 0
        /\ total > 0 => num * total = tagged * den
        /\ (total > 0 /\ tagged = total) => num = den
        /\ tagged = 0 => num = 0
        /\ (total > 0 /\ 2 * tagged = total) => 2 * num = den

\* Two key facts, one of them tagged, and two insights, one of them tagged
\* without a closing bracket: half of four.
C11_Witness ==
  /\ c_pc = "returned"
  /\ Len(C11_Items) = 4
  /\ Cardinality(C11_Tagged) = 2
  /\ \E j \in C11_Tagged : j > Len(c_summary.keyFacts.items)
  /\ c_confidence = <<2, 4>>

\* The facts of the three lists analyzeFacts returned, and the normalized
\* text (citation markers stripped, trimmed) of every key fact given to it.
F_Lists == <<f_result.common, f_result.unusual, f_result.long>>
F_Returned == UNION {{F_Lists[l][j] : j \in 1..Len(F_Lists[l])} : l \in 1..3}
F_Mentions ==
  UNION {{[doc |-> f_summaries[d].path, k |-> k,
           text |-> Trim(StripTags(f_summaries[d].keyFacts[k]))] :
            k \in 1..Len(f_summaries[d].keyFacts)} : d \in 1..Len(f_summaries)}
F_MentionsOf(mentions, text) == {m \in mentions : m.text = text}
F_DocsOf(mentions, text) == {m.doc : m \in F_MentionsOf(mentions, text)}

F_Texts(list) == {list[j].text : j \in 1..Len(list)}
F_NoRepeat(list) == \A j, k \in 1..Len(list) : list[j].text = list[k].text => j = k

F_IsRanking(list, category, passing, field, cap) ==
  LET Key(f) == f[field]
      listed == {j \in passing : f_analyzed[j].text \in F_Texts(list)}
  IN  /\ \A k \in 1..Len(list) :
           /\ list[k].category = category
           /\ \E j \in passing : [f_analyzed[j] EXCEPT !.category = category] = list[k]
      /\ \A k \in 2..Len(list) : Key(list[k - 1]) >= Key(list[k])
      /\ Len(list) = Min(cap, Cardinality(passing))
      /\ Cardinality(listed) = Len(list)
      /\ \A j \in passing \ listed : \A k \in listed :
           Key(f_analyzed[j]) <= Key(f_analyzed[k])

\* C14: common holds only facts of frequency >= 3, in non-increasing order of
\* frequency, and is the at most 10 of them with the highest frequency;
\* unusual holds only facts of frequency 1 and rarity >= 0.7, in
\* non-increasing order of rarity, at most the 10 highest; long holds every
\* fact of more than 50 words, in non-increasing order of word count,
\* whatever their number.
C14_FilterSortTruncate ==
  f_pc = "returned" =>
    LET all == 1..Len(f_analyzed)
    IN  /\ F_IsRanking(f_result.common, "common",
                       {j \in all : f_analyzed[j].frequency >= 3}, "frequency", 10)
        /\ F_IsRanking(f_result.unusual, "unusual",
                       {j \in all : /\ f_analyzed[j].frequency = 1
                                    /\ f_analyzed[j].rarityScore >= 70},
                       "rarityScore", 10)
        /\ F_IsRanking(f_result.long, "long",
                       {j \in all : f_analyzed[j].wordCount > 50}, "wordCount",
                       Len(f_analyzed))

\* Twelve facts of frequency 3 or more: common holds ten of them and starts
\* with the one that entered the index last, which was mentioned most; long
\* holds eleven facts.
C14_Witness ==
  /\ f_pc = "returned"
  /\ Cardinality({j \in 1..Len(f_analyzed) : f_analyzed[j].frequency >= 3}) = NumFacts
  /\ Len(f_result.common) = 10
  /\ f_result.common[1].text = f_analyzed[NumFacts].text
  /\ f_result.common[1].frequency > f_result.common[2].frequency
  /\ Len(f_result.long) = 11

C16_ConclusionsUseFallback ==
  /\ (/\ pc \in {"stage10_wait", "done"}
      /\ includeConclusions
      /\ clients.googleAI /\ clients.openAI
      /\ conclusions.confidence[1] = 0 /\ conclusions.evidence = <<>>)
     => conclusionCalls = <<"google", "openai">>
  /\ Len(conclusionCalls) <= 2
  /\ Cardinality({k \in 1..Len(conclusionCalls) : conclusionCalls[k] = "google"}) <= 1

\* The documents that reach the core of a run: what extractContents and the
\* law filter leave of the files discovered.
Reaching == batchFilterLawContent(extractContents(files), excludeLaw)
PastStage4 == pc \notin {"stage1_wait", "stage2_wait"}

\* C17: once the run has found the document sequence empty (no file
\* discovered, none that could be read, or all of them filtered out as legal
\* content) it has ended with exit code 1 after logging which of the three
\* it was, and it stays so: no client built, no batch created, no provider
\* call made, no digest assembled or written. A run that names a no-input
\* condition had an empty sequence.
C17_EmptyInputShortCircuits ==
  /\ (PastStage4 /\ Reaching = <<>>) =>
       /\ pc = "exit1"
       /\ noInput = (IF files = <<>> THEN "no_files_to_process"
                     ELSE IF extractContents(files) = <<>> THEN "no_content_extracted"
                     ELSE "all_files_filtered")
       /\ ~clients.initialized
       /\ batches = <<>>
       /\ gw = <<>>
       /\ conclusionCalls = <<>>
       /\ digestArgs = {}
       /\ ~digestWritten
  /\ noInput # "none" => (PastStage4 /\ Reaching = <<>>)

\* Files were found and read, and the law filter left none of them.
C17_Witness ==
  /\ pc = "exit1"
  /\ noInput = "all_files_filtered"
  /\ files # <<>>
  /\ extractContents(files) = files
  /\ excludeLaw

\* C18: after Stage 4 the graph has been built, and its clusters computed,
\* exactly when the run has more than 50 documents or more than 20,000
\* estimated tokens, a quarter token per character of content; a run below
\* both thresholds has no graph and no clusters.
C18_GraphIffLarge ==
  PastStage4 =>
    LET large == Len(contents) > 50 \/ SumLength(contents) > 4 * 20000
    IN  /\ graph.built <=> large
        /\ graph.clustered <=> large
        /\ ~large => graph = [built |-> FALSE, fileCount |-> 0, clustered |-> FALSE]

\* A run of one document of more than 80,000 characters built the graph and
\* wrote its digest.
C18_Witness ==
  /\ pc = "done"
  /\ Len(contents) = 1
  /\ graph.built
  /\ graph.clustered

\* C19: when the graph was built in a run, it is among what the run hands to
\* generateConclusions and among what it hands to generateDigest.
C19_GraphHandedOn ==
  graph.built =>
    /\ conclusionArgs # {} => "graph" \in conclusionArgs
    /\ digestArgs # {} => "graph" \in digestArgs

\* The mentions buildKnowledgeGraph was given: document and label.
G_Mentions ==
  UNION {{[doc |-> g_files[d].path, label |-> g_files[d].mentions[k].label] :
            k \in 1..Len(g_files[d].mentions)} : d \in 1..Len(g_files)}

\* A label case-folded and trimmed: what lies between its first and its last
\* character that is no space, in lower case.
G_Fold(ch) == CASE ch = "A" -> "a" [] ch = "B" -> "b" [] OTHER -> ch
G_Key(label) ==
  LET inked == {k \in 1..Len(label) : label[k] # " "}
  IN  IF inked = {} THEN <<>>
      ELSE LET first == CHOOSE k \in inked : \A j \in inked : k <= j
               last  == CHOOSE k \in inked : \A j \in inked : j <= k
           IN  [j \in 1..(last - first + 1) |-> G_Fold(label[first + j - 1])]

\* C20: in the graph buildKnowledgeGraph returns, no two nodes have the same
\* case-folded, trimmed label; every mention has its node; and the sources
\* of a node are the documents with a mention of that normalized label, each
\* once.
C20_NodesMergedByLabel ==
  g_pc = "returned" =>
    /\ \A a, b \in 1..Len(g_nodes) :
         G_Key(g_nodes[a].label) = G_Key(g_nodes[b].label) => a = b
    /\ \A m \in G_Mentions :
         \E a \in 1..Len(g_nodes) : G_Key(g_nodes[a].label) = G_Key(m.label)
    /\ \A a \in 1..Len(g_nodes) :
         LET node == g_nodes[a]
             docs == {m.doc : m \in {x \in G_Mentions : G_Key(x.label) = G_Key(node.label)}}
         IN  /\ {node.sources[j] : j \in 1..Len(node.sources)} = docs
             /\ Len(node.sources) = Cardinality(docs)

\* "Ab" in the first document and "ab " in the second gave one node with both
\* documents as its sources.
C20_Witness ==
  /\ g_pc = "returned"
  /\ Len(g_files) = 2
  /\ g_files[1].mentions = <<Mention(<<"A", "b">>, "entity")>>
  /\ g_files[2].mentions = <<Mention(<<"a", "b", " ">>, "concept")>>
  /\ Len(g_nodes) = 1
  /\ g_nodes[1].sources = <<1, 2>>

\* The group of batch b: the chunk of the loop it is sliced into.
GroupOf(b) == (b - 1) \div maxConcurrent
Started(b) == gw[b].st # "idle"
Settled(b) == gw[b].st \in {"fulfilled", "rejected"}

\* C24: the batches are taken in groups of maxConcurrent consecutive batches
\* (the last may be smaller): a batch that has been started has every batch
\* of every earlier group settled, and the batches in flight together are
\* all of one group and so at most maxConcurrent.
C24_GroupsInTurn ==
  /\ \A b \in Batches :
       Started(b) => \A a \in Batches : GroupOf(a) < GroupOf(b) => Settled(a)
  /\ \A a, b \in InFlightSet : GroupOf(a) = GroupOf(b)
  /\ \A b \in Batches :
       Cardinality({a \in Batches : GroupOf(a) = GroupOf(b)}) <= maxConcurrent

\* The third batch, first of the second group, is in flight after the two
\* batches of the first group have settled.
C24_Witness ==
  /\ maxConcurrent = 2
  /\ Len(batches) >= 3
  /\ InFlight(gw[3])
  /\ settledOrder = <<>>
  /\ Settled(1) /\ Settled(2)

\* C28: a summarizeBatch invocation makes at most two outbound calls, no
\* provider is called twice, and a call is made only once the one before has
\* ended; a second call is to the secondary, after the call to the primary
\* failed, with both providers configured; after a primary that succeeded,
\* or with one provider configured, there is one call at most.
C28_AtMostOneCallPerProvider ==
  \A b \in Batches :
    LET a == gw[b].attempts
    IN  /\ Len(a) <= 2
        /\ \A j, k \in 1..Len(a) : a[j].provider = a[k].provider => j = k
        /\ \A j \in 1..Len(a) : j < Len(a) => a[j].outcome \in {"ok", "failed"}
        /\ Len(a) = 2 =>
             /\ a[1].provider = "google" /\ a[1].outcome = "failed"
             /\ a[2].provider = "openai"
             /\ env.google /\ env.openai
        /\ (Len(a) >= 1 /\ a[1].outcome = "ok") => Len(a) = 1
        /\ ~(env.google /\ env.openai) => Len(a) <= 1

\* Both providers have a key: one batch was fulfilled by the primary's one
\* call, another was rejected after one call to each provider.
C28_Witness ==
  /\ env.google
  /\ env.openai
  /\ \E b, d \in Batches :
       /\ gw[b].st = "fulfilled"
       /\ Len(gw[b].attempts) = 1
       /\ gw[b].attempts[1].provider = "google"
       /\ gw[d].st = "rejected"
       /\ Len(gw[d].attempts) = 2
       /\ gw[d].attempts[1].outcome = "failed"
       /\ gw[d].attempts[2].outcome = "failed"

\* C30: the processor is called at most once on every batch, and when every
\* promise it returns settles, processBatchesInParallel, called on the
\* batches of createBatches, resolves or rejects.
C30_SchedulerCompletes ==
  /\ [](\A b \in 1..Len(s_calls) : s_calls[b].starts <= 1)
  /\ (s_pc = "input") ~> (s_pc = "returned" /\ s_outcome.state \in {"resolved", "rejected"})

\* Three batches in two groups, each started once and fulfilled:
\* processBatchesInParallel resolved with the documents in order.
C30_Witness ==
  /\ s_pc = "returned"
  /\ s_outcome.state = "resolved"
  /\ Len(s_batches) = 3
  /\ s_maxConcurrent = 2
  /\ \A b \in 1..3 : s_calls[b].starts = 1 /\ s_calls[b].st = "fulfilled"
  /\ s_results = s_contents

\* C25: in a run the graph and its clusters are built only once
\* processBatchesInParallel has resolved with all the summaries, and so is
\* the TF-IDF index of analyzeFacts.
C25_AnalysisAfterSummarization ==
  /\ graph.built => outcome.state = "resolved"
  /\ graph.clustered => outcome.state = "resolved"
  /\ factAnalysis = "analyzed" => outcome.state = "resolved"

\* The sources of a fact as analyzeFacts keeps them: at least one path, none
\* twice, at most as many as the fact was mentioned.
F_SourcesSound(f) ==
  /\ Len(f.sources) >= 1
  /\ \A j, k \in 1..Len(f.sources) : f.sources[j] = f.sources[k] => j = k
  /\ Len(f.sources) <= f.frequency

\* C29: every entry of the index while the facts are collected, every
\* analyzed fact and every fact of the three lists returned has at least one
\* source path, no path twice, and no more paths than its frequency.
C29_SourcesWithinFrequency ==
  /\ \A j \in 1..Len(f_factMap) : F_SourcesSound(f_factMap[j])
  /\ \A j \in 1..Len(f_analyzed) : F_SourcesSound(f_analyzed[j])
  /\ f_pc = "returned" => \A f \in F_Returned : F_SourcesSound(f)

\* A returned fact was mentioned in two documents and more than once in one
\* of them.
C29_Witness ==
  /\ f_pc = "returned"
  /\ \E f \in F_Returned : Len(f.sources) = 2 /\ f.frequency > 2

\* C26 as stated: every fact's rarity is 1 / (1 + avgScore), with avgScore 0
\* for a fact without scored terms; it lies in (0, 1], is 1 exactly when
\* avgScore is 0, and is smaller for the fact of larger avgScore.
R_Facts == IF r_pc = "returned" THEN 1..Len(r_scores) ELSE {}
R_Avg(j) == avgTfIdf(r_scores[j])
R_Inverse(j) == Ratio(R_Avg(j).den, R_Avg(j).den + R_Avg(j).num)
C26_RarityIsInverse ==
  /\ \A j \in R_Facts :
       /\ RatioEq(r_rarity[j], R_Inverse(j))
       /\ RatioLess(Ratio(0, 1), r_rarity[j])
       /\ ~RatioLess(Ratio(1, 1), r_rarity[j])
       /\ RatioEq(r_rarity[j], Ratio(1, 1)) <=> R_Avg(j).num = 0
  /\ \A j, m \in R_Facts :
       RatioLess(R_Avg(j), R_Avg(m)) => RatioLess(r_rarity[m], r_rarity[j])

\* C26, amended: rarity is 1 / (1 + avgScore) for a fact whose avgScore is
\* positive and 0.5 for a fact whose avgScore is 0 (no scored term, or every
\* score 0); it lies strictly between 0 and 1, never reaches 1, and among
\* facts of positive avgScore is smaller for the larger avgScore.
C26_RarityInverseOrHalf ==
  /\ \A j \in R_Facts :
       /\ R_Avg(j).num > 0 => RatioEq(r_rarity[j], R_Inverse(j))
       /\ R_Avg(j).num = 0 => RatioEq(r_rarity[j], Ratio(1, 2))
       /\ RatioLess(Ratio(0, 1), r_rarity[j])
       /\ RatioLess(r_rarity[j], Ratio(1, 1))
  /\ \A j, m \in R_Facts :
       R_Avg(j).num > 0 /\ RatioLess(R_Avg(j), R_Avg(m))
         => RatioLess(r_rarity[m], r_rarity[j])

C26_Witness ==
  /\ r_pc = "returned"
  /\ Len(r_scores) = 2
  /\ r_scores[1] = <<>>
  /\ RatioEq(r_rarity[1], Ratio(1, 2))
  /\ Len(r_scores[2]) = 2
  /\ R_Avg(2).num > 0
  /\ RatioLess(r_rarity[2], r_rarity[1])

\* C22: for fewer than 3 nodes clusterEntities returns exactly one cluster,
\* holding all the input nodes with coherence 1.0, and kmeans is not called.
C22_SmallInputOneCluster ==
  (k_pc = "returned" /\ Len(k_nodes) < 3) =>
    /\ ~k_result.threw
    /\ Len(k_result.clusters) = 1
    /\ k_result.clusters[1].entities = k_nodes
    /\ k_result.clusters[1].coherenceScore = 100
    /\ k_kmeans = <<>>

C22_Witness ==
  /\ k_pc = "returned"
  /\ Len(k_nodes) = 2
  /\ k_nodes[1].label # k_nodes[2].label
  /\ k_result.clusters = <<TrivialCluster(k_nodes)>>
  /\ k_kmeans = <<>>

\* C23: for 3 or more nodes kmeans is called once, and when the call throws
\* clusterEntities throws nothing and returns the one cluster of all input
\* nodes with coherence 1.0.
C23_KmeansFailureFallsBack ==
  (k_pc = "returned" /\ Len(k_nodes) >= 3) =>
    /\ Len(k_kmeans) = 1
    /\ k_kmeans[1].threw =>
         /\ ~k_result.threw
         /\ Len(k_result.clusters) = 1
         /\ k_result.clusters[1].entities = k_nodes
         /\ k_result.clusters[1].coherenceScore = 100

C23_Witness ==
  /\ k_pc = "returned"
  /\ Len(k_nodes) = 3
  /\ Len(k_kmeans) = 1
  /\ k_kmeans[1].k = 2
  /\ k_kmeans[1].threw
  /\ k_result = [threw |-> FALSE, clusters |-> <<TrivialCluster(k_nodes)>>]

\* The counter coOccurrences keeps from node a to node b, 0 when there is none.
G_Count(a, b) ==
  LET from == G_Key(g_nodes[a].label)
      to   == G_Key(g_nodes[b].label)
      hits == {<<j, t>> \in (1..Len(g_coOccurrences)) \X (1..MaxMentions) :
                 /\ g_coOccurrences[j].key = from
                 /\ t <= Len(g_coOccurrences[j].targets)
                 /\ g_coOccurrences[j].targets[t].key = to}
  IN  IF hits = {} THEN 0
      ELSE LET h == CHOOSE x \in hits : TRUE
           IN  g_coOccurrences[h[1]].targets[h[2]].count
G_EdgesBetween(a, b) ==
  {e \in 1..Len(g_edges) :
     g_edges[e].source = g_nodes[a].id /\ g_edges[e].target = g_nodes[b].id}

\* C21: the graph returned has exactly one edge for each ordered pair of
\* distinct nodes whose counter is not 0, of weight min(count / number of
\* documents, 1), and no other edge: every weight is in (0, 1], no edge joins
\* a node to itself and no ordered pair has two edges.
C21_OneEdgePerCountedPair ==
  g_pc = "returned" =>
    /\ \A a, b \in 1..Len(g_nodes) :
         LET count == G_Count(a, b)
         IN  IF a # b /\ count > 0
               THEN /\ Cardinality(G_EdgesBetween(a, b)) = 1
                    /\ \A e \in G_EdgesBetween(a, b) :
                         IF count >= Len(g_files)
                           THEN RatioEq(g_edges[e].weight, Ratio(1, 1))
                           ELSE RatioEq(g_edges[e].weight, Ratio(count, Len(g_files)))
               ELSE G_EdgesBetween(a, b) = {}
    /\ \A e \in 1..Len(g_edges) :
         /\ \E a, b \in 1..Len(g_nodes) : e \in G_EdgesBetween(a, b)
         /\ g_edges[e].source # g_edges[e].target
         /\ RatioLess(Ratio(0, 1), g_edges[e].weight)
         /\ ~RatioLess(Ratio(1, 1), g_edges[e].weight)

\* "Ab" twice and " B" once among the people of the only document: the
\* counter from ab to b is 2 and the weight is capped at 1.
C21_Witness ==
  /\ g_pc = "returned"
  /\ Len(g_files) = 1
  /\ Len(g_nodes) = 2
  /\ G_Count(1, 2) > 1
  /\ Len(g_edges) = 2
  /\ RatioEq(g_edges[1].weight, Ratio(1, 1))

\* C27: the edges of the graph returned are symmetric: with an edge from A to
\* B there is an edge from B to A of the same weight.
C27_EdgesSymmetric ==
  g_pc = "returned" =>
    \A e \in 1..Len(g_edges) :
      \E r \in 1..Len(g_edges) :
        /\ g_edges[r].source = g_edges[e].target
        /\ g_edges[r].target = g_edges[e].source
        /\ RatioEq(g_edges[r].weight, g_edges[e].weight)

\* Two documents, one with a label mentioned twice beside another label: the
\* counters of the two directions are both 2 and there is an edge each way.
C27_Witness ==
  /\ g_pc = "returned"
  /\ Len(g_files) = 2
  /\ \E a, b \in 1..Len(g_nodes) :
       /\ a # b
       /\ G_Count(a, b) = 2
       /\ G_Count(b, a) = 2
  /\ Len(g_edges) = 2

====
